---- MODULE Spec2Model ----
(***************************************************************************)
(* Stroke-outcome data preparation pipeline (samuel-book/stroke_outcome_ml)*)
(* The three notebooks are modelled as programs over tables:               *)
(*   01 clean raw data, 02 reformat data for ML, 03 create k-fold splits.  *)
(*                                                                         *)
(* A table is a record [columns, rows].  rows is a run-length encoded      *)
(* sequence: each element [row |-> r, n |-> k] stands for k consecutive    *)
(* identical rows r, so that hospital volumes around the real thresholds   *)
(* (250 admissions, 10 thrombolysis) stay checkable.  A row is a function  *)
(* from column names to cells.  A numeric cell is <<v>>, a missing cell    *)
(* (NaN) is <<>>; a text cell is a sequence of one-character strings.      *)
(***************************************************************************)
EXTENDS Integers, Sequences, FiniteSets, TLC

VARIABLES
    pc,            \* position of the running 02 notebook (next cell group)
    all_data,      \* 02: the table loaded from the cleaned csv
    data,          \* 02: the working table
    teamCodeFile,  \* file 02_team_code.csv: rows [stroke_team, team_code]
    cohortFile,    \* file 02_reformatted_data_ml.csv: a table
    written,       \* names of the files the current 02 run has written
    twinFile,      \* 02_team_code.csv of a second, separate process and file system
    printed,       \* 02: the features the zero standard deviation loop reported
    kf_pc,         \* position of the running 03 notebook
    kf_data,       \* 03: the table loaded from the reformatted csv
    test_folds,    \* 03: fold number of every row (StratifiedKFold)
    counter,       \* 03: number of the fold the loop writes next
    trainFiles,    \* files 03_train_<i>.csv, by fold: the rows written, named by
                   \* their position in the loaded table
    testFiles,     \* files 03_test_<i>.csv, likewise
    cl_pc,         \* position of the running 01 notebook
    raw_data,      \* 01: the rows of the raw extract
    cleaned_data,  \* 01: the rows of the table being built, one per raw row
    issues,        \* 01: the rows of the issues log
    new_cleaned_data,  \* 01: cleaned_data without the removed patients
    cleanFile,     \* file clean_samuel_ssnap_extract_v2.csv: its rows
    issuesFile     \* file cleaning_issues_log.csv: its rows

reformatVars == <<pc, all_data, data, teamCodeFile, cohortFile, written, twinFile, printed>>
kfoldVars == <<kf_pc, kf_data, test_folds, counter, trainFiles, testFiles>>
cleanVars == <<cl_pc, raw_data, cleaned_data, issues, new_cleaned_data,
               cleanFile, issuesFile>>
vars == <<reformatVars, kfoldVars, cleanVars>>

(***************************************************************************)
(* Cells and pandas comparison semantics                                   *)
(***************************************************************************)
NaN == <<>>
Num(v) == <<v>>
IsNull(x) == x = NaN
\* comparisons with NaN are False
EqN(x, v) == x # NaN /\ x[1] = v
GeN(x, v) == x # NaN /\ x[1] >= v
LeN(x, v) == x # NaN /\ x[1] <= v
\* arithmetic with NaN gives NaN
AddN(x, y) == IF x = NaN \/ y = NaN THEN NaN ELSE <<x[1] + y[1]>>
SubN(x, y) == IF x = NaN \/ y = NaN THEN NaN ELSE <<x[1] - y[1]>>
LtN(x, v) == x # NaN /\ x[1] < v
GtN(x, v) == x # NaN /\ x[1] > v
\* a cell holding a category code read from the csv ('Y', 'N', ...)
Txt(v) == <<v>>

\* a file is Absent or File(content)
Absent == [exists |-> FALSE]
File(content) == [exists |-> TRUE, content |-> content]
NoTable == [columns |-> <<>>, rows |-> <<>>]

Range(s) == {s[i] : i \in 1..Len(s)}
HasCols(t, cs) == cs \subseteq Range(t.columns)

\* boolean-mask row selection: data[mask]
FilterRows(t, Keep(_)) ==
    [t EXCEPT !.rows = SelectSeq(t.rows, LAMBDA b : Keep(b.row))]

\* element-wise update of every row
MapRows(t, F(_)) ==
    [t EXCEPT !.rows = [i \in 1..Len(t.rows) |-> [t.rows[i] EXCEPT !.row = F(t.rows[i].row)]]]

RECURSIVE SumSeq(_)
SumSeq(s) == IF s = <<>> THEN 0 ELSE Head(s) + SumSeq(Tail(s))

(***************************************************************************)
(* str.strip(): remove leading and trailing whitespace                     *)
(***************************************************************************)
RECURSIVE lstrip(_)
lstrip(s) == IF s # <<>> /\ Head(s) = " " THEN lstrip(Tail(s)) ELSE s

RECURSIVE rstrip(_)
rstrip(s) ==
    IF s # <<>> /\ s[Len(s)] = " " THEN rstrip(SubSeq(s, 1, Len(s) - 1)) ELSE s

strip(s) == rstrip(lstrip(s))

(***************************************************************************)
(* 02 Reformat data: thresholds and default values                         *)
(***************************************************************************)
min_hospital_thrombolysis_threshold == 10
min_hospital_admission_threshold == 250
set_duration_not_get_thrombolysis == -100

\* columns holding text (pandas dtype 'O') in the cleaned csv
TextColumns == {"stroke_team", "discharge_destination"}

(***************************************************************************)
(* Cell 6: filter patients on patient characteristics                      *)
(***************************************************************************)
PatientFilterColumns ==
    {"year", "infarction", "arrive_by_ambulance", "thrombectomy",
     "prior_disability", "discharge_disability", "onset_to_arrival_time",
     "onset_known"}

PatientMask(row) ==
    /\ GeN(row["year"], 2016)
    /\ EqN(row["infarction"], 1)
    /\ EqN(row["arrive_by_ambulance"], 1)
    /\ EqN(row["thrombectomy"], 0)
    /\ GeN(row["prior_disability"], 0)
    /\ GeN(row["discharge_disability"], 0)
    /\ (LeN(row["onset_to_arrival_time"], 0) = FALSE)
    /\ EqN(row["onset_known"], 1)

FilterPatientsCell(t) == FilterRows(t, PatientMask)

(***************************************************************************)
(* Cell 7: remove leading and trailing whitespace in team names            *)
(***************************************************************************)
StripTeamsCell(t) ==
    MapRows(t, LAMBDA r : [r EXCEPT !["stroke_team"] = strip(r["stroke_team"])])

(***************************************************************************)
(* Cells 8-10: filter patients on attended hospital characteristics        *)
(***************************************************************************)
Teams(t) == {t.rows[i].row["stroke_team"] : i \in 1..Len(t.rows)}

\* (variant: the count taken over the whole table, without the groupby)
stroke_team_admissions_whole_table(t) ==
    [team \in Teams(t) |-> SumSeq([i \in 1..Len(t.rows) |-> t.rows[i].n])]

\* data.groupby(['stroke_team'])['stroke_team'].count()
stroke_team_admissions(t) ==
    [team \in Teams(t) |->
        SumSeq([i \in 1..Len(t.rows) |->
            IF t.rows[i].row["stroke_team"] = team THEN t.rows[i].n ELSE 0])]

\* data.groupby(['stroke_team'])['thrombolysis'].sum()  (NaN is skipped)
stroke_team_thrombolysis(t) ==
    [team \in Teams(t) |->
        SumSeq([i \in 1..Len(t.rows) |->
            IF /\ t.rows[i].row["stroke_team"] = team
               /\ ~IsNull(t.rows[i].row["thrombolysis"])
            THEN t.rows[i].n * t.rows[i].row["thrombolysis"][1]
            ELSE 0])]

\* (variant: threshold compared with > instead of >=)
filter_stroke_team_strict(t, min_threshold, stroke_team_values) ==
    LET stroke_team_keep ==
            {team \in DOMAIN stroke_team_values :
                stroke_team_values[team] > min_threshold}
    IN  FilterRows(t, LAMBDA r : r["stroke_team"] \in stroke_team_keep)

filter_stroke_team(t, min_threshold, stroke_team_values) ==
    LET stroke_team_keep ==
            {team \in DOMAIN stroke_team_values :
                stroke_team_values[team] >= min_threshold}
    IN  FilterRows(t, LAMBDA r : r["stroke_team"] \in stroke_team_keep)

AdmissionGateCell(t) ==
    filter_stroke_team(t, min_hospital_admission_threshold,
                       stroke_team_admissions(t))

ThrombolysisGateCell(t) ==
    filter_stroke_team(t, min_hospital_thrombolysis_threshold,
                       stroke_team_thrombolysis(t))

(***************************************************************************)
(* Cell 11: scan to thrombolysis time of patients without thrombolysis     *)
(***************************************************************************)
\* (variant: every patient not recorded as thrombolysed gets the default)
SentinelCellUnlessTreated(t) ==
    MapRows(t, LAMBDA r :
        IF ~EqN(r["thrombolysis"], 1)
        THEN [r EXCEPT !["scan_to_thrombolysis_time"] =
                            Num(set_duration_not_get_thrombolysis)]
        ELSE r)

SentinelCell(t) ==
    MapRows(t, LAMBDA r :
        IF EqN(r["thrombolysis"], 0)
        THEN [r EXCEPT !["scan_to_thrombolysis_time"] =
                            Num(set_duration_not_get_thrombolysis)]
        ELSE r)

(***************************************************************************)
(* Cells 12-13: new feature onset_to_thrombolysis_time                     *)
(***************************************************************************)
\* (variant: the sum without the -100 default)
calculate_onset_to_thrombolysis_no_default(row) ==
    AddN(AddN(row["onset_to_arrival_time"], row["arrival_to_scan_time"]),
         row["scan_to_thrombolysis_time"])

calculate_onset_to_thrombolysis(row) ==
    IF row["scan_to_thrombolysis_time"] # Num(-100)
    THEN AddN(AddN(row["onset_to_arrival_time"], row["arrival_to_scan_time"]),
              row["scan_to_thrombolysis_time"])
    ELSE Num(-100)

\* a new column is appended to the right of the table
AddColumn(t, col, F(_)) ==
    [columns |-> Append(t.columns, col),
     rows |-> [i \in 1..Len(t.rows) |->
                [row |-> [c \in DOMAIN t.rows[i].row \cup {col} |->
                            IF c = col THEN F(t.rows[i].row)
                            ELSE t.rows[i].row[c]],
                 n |-> t.rows[i].n]]]

OnsetToThrombolysisCell(t) ==
    AddColumn(t, "onset_to_thrombolysis_time", calculate_onset_to_thrombolysis)

(***************************************************************************)
(* Cell 14: new feature stroke_team_id and the team code file              *)
(***************************************************************************)
\* random.seed(42); random.shuffle(teams): the permutation that the seeded
\* generator applies to a list of n elements (result[i] = teams[p[i]])
Shuffle42(n) ==
    CASE n = 0 -> <<>>
      [] n = 1 -> <<1>>
      [] n = 2 -> <<2, 1>>
      [] n = 3 -> <<2, 1, 3>>
      [] n = 4 -> <<3, 2, 4, 1>>
      [] n = 5 -> <<4, 2, 3, 5, 1>>

shuffle(teams) == [i \in 1..Len(teams) |-> teams[Shuffle42(Len(teams))[i]]]

\* list(set(...)): the iteration orders a set of strings can have; the order
\* follows the string hashes, which are salted per interpreter process
SetOrders(S) ==
    {order \in [1..Cardinality(S) -> S] :
        \A i, j \in 1..Cardinality(S) : i # j => order[i] # order[j]}

\* (variant: codes from 0, the bare enumerate index)
EnumerateCodesFromZero(teams) ==
    [team \in Range(teams) |-> (CHOOSE i \in 1..Len(teams) : teams[i] = team) - 1]

\* teams_code_dict of the first run: enumerate(teams), code i + 1
EnumerateCodes(teams) ==
    [team \in Range(teams) |-> CHOOSE i \in 1..Len(teams) : teams[i] = team]

\* pd.DataFrame(teams_code_dict.items(), columns=col_names): rows in dict order
TeamCodeRows(teams, teams_code_dict) ==
    [i \in 1..Len(teams) |->
        [stroke_team |-> teams[i], team_code |-> teams_code_dict[teams[i]]]]

\* (variant: the code of a label is the index of its row in the DataFrame)
LoadCodesAsRowIndex(file) ==
    [team \in {strip(file[i].stroke_team) : i \in 1..Len(file)} |->
        (CHOOSE i \in 1..Len(file) : strip(file[i].stroke_team) = team) - 1]

\* teams_code_dict of a later run: rows of the file, labels stripped, a later
\* row replacing an earlier one with the same label
LoadCodes(file) ==
    [team \in {strip(file[i].stroke_team) : i \in 1..Len(file)} |->
        LET last == CHOOSE i \in 1..Len(file) :
                        /\ strip(file[i].stroke_team) = team
                        /\ \A j \in i+1..Len(file) : strip(file[j].stroke_team) # team
        IN  file[last].team_code]

\* (variant: a label that is not in the dict gets the next free code)
MapCodesInventCode(t, teams_code_dict) ==
    AddColumn(t, "stroke_team_id", LAMBDA r :
        IF r["stroke_team"] \in DOMAIN teams_code_dict
        THEN Num(teams_code_dict[r["stroke_team"]])
        ELSE Num(Cardinality(DOMAIN teams_code_dict) + 1))

\* data['stroke_team'].map(teams_code_dict): NaN for a label not in the dict
MapCodes(t, teams_code_dict) ==
    AddColumn(t, "stroke_team_id", LAMBDA r :
        IF r["stroke_team"] \in DOMAIN teams_code_dict
        THEN Num(teams_code_dict[r["stroke_team"]])
        ELSE NaN)

\* (variant: the codes are created and saved whether or not the file exists)
TeamCodeCellAlwaysCreate(t, file, order) ==
    LET teams == shuffle(order)
        teams_code_dict == EnumerateCodes(teams)
    IN  [file |-> File(TeamCodeRows(teams, teams_code_dict)),
         data |-> MapCodes(t, teams_code_dict),
         wrote |-> TRUE]

\* the cell, given the file as found and the iteration order of the set
TeamCodeCell(t, file, order) ==
    IF ~file.exists
    THEN LET teams == shuffle(order)
             teams_code_dict == EnumerateCodes(teams)
         IN  [file |-> File(TeamCodeRows(teams, teams_code_dict)),
              data |-> MapCodes(t, teams_code_dict),
              wrote |-> TRUE]
    ELSE [file |-> file,
          data |-> MapCodes(t, LoadCodes(file.content)),
          wrote |-> FALSE]

(***************************************************************************)
(* Cells 15-22: removing features                                          *)
(***************************************************************************)
FixedRemoveFeatures ==
    <<"onset_known",
      "afib_vit_k_anticoagulant", "afib_doac_anticoagulant",
      "afib_heparin_anticoagulant",
      "thrombolysis",
      "discharge_destination", "death", "disability_6_month",
      "call_to_ambulance_arrival_time", "ambulance_on_scene_time",
      "ambulance_travel_to_hospital_time", "ambulance_wait_time_at_hospital",
      "thrombectomy", "arrival_to_thrombectomy_time">>

\* (variant: zero only when every row holds the same recorded value)
ZeroStdNoMissing(t, col) ==
    /\ SumSeq([i \in 1..Len(t.rows) |-> t.rows[i].n]) >= 2
    /\ \A i, j \in 1..Len(t.rows) :
            /\ ~IsNull(t.rows[i].row[col])
            /\ t.rows[i].row[col] = t.rows[j].row[col]

\* data[col].std() == 0: NaN is skipped; fewer than two values give NaN
ZeroStd(t, col) ==
    LET present == {i \in 1..Len(t.rows) : ~IsNull(t.rows[i].row[col])}
        count == SumSeq([i \in 1..Len(t.rows) |->
                            IF i \in present THEN t.rows[i].n ELSE 0])
    IN  /\ count >= 2
        /\ \A i, j \in present : t.rows[i].row[col] = t.rows[j].row[col]

\* the columns the loop of cell 21 appends, in table order
ZeroStdFeatures(t) ==
    SelectSeq(t.columns, LAMBDA col :
        /\ col \notin TextColumns
        /\ ZeroStd(t, col)
        /\ col \notin Range(FixedRemoveFeatures))

remove_features(t) == FixedRemoveFeatures \o ZeroStdFeatures(t)

\* data.drop(labels, axis=1); the caller checks that every label is a column
DropColumns(t, labels) ==
    [columns |-> SelectSeq(t.columns, LAMBDA c : c \notin Range(labels)),
     rows |-> [i \in 1..Len(t.rows) |->
                [row |-> [c \in DOMAIN t.rows[i].row \ Range(labels) |->
                            t.rows[i].row[c]],
                 n |-> t.rows[i].n]]]

(***************************************************************************)
(* Input tables: what the 02 notebook can find in the cleaned csv          *)
(***************************************************************************)
MaxBlocks == 2

CleanColumns ==
    <<"stroke_team", "year", "infarction", "onset_to_arrival_time",
      "onset_known", "arrive_by_ambulance",
      "call_to_ambulance_arrival_time", "ambulance_on_scene_time",
      "ambulance_travel_to_hospital_time", "ambulance_wait_time_at_hospital",
      "arrival_to_scan_time", "thrombolysis", "scan_to_thrombolysis_time",
      "thrombectomy", "arrival_to_thrombectomy_time",
      "afib_vit_k_anticoagulant", "afib_doac_anticoagulant",
      "afib_heparin_anticoagulant", "prior_disability",
      "discharge_destination", "death", "discharge_disability",
      "disability_6_month">>

\* an untreated ambulance arrival with infarction in 2017
Untreated(team) ==
    [stroke_team |-> team, year |-> Num(2017), infarction |-> Num(1),
     onset_to_arrival_time |-> Num(60), onset_known |-> Num(1),
     arrive_by_ambulance |-> Num(1),
     call_to_ambulance_arrival_time |-> Num(15),
     ambulance_on_scene_time |-> Num(25),
     ambulance_travel_to_hospital_time |-> Num(20),
     ambulance_wait_time_at_hospital |-> Num(5),
     arrival_to_scan_time |-> Num(20), thrombolysis |-> Num(0),
     scan_to_thrombolysis_time |-> NaN,
     thrombectomy |-> Num(0), arrival_to_thrombectomy_time |-> NaN,
     afib_vit_k_anticoagulant |-> Num(0), afib_doac_anticoagulant |-> Num(0),
     afib_heparin_anticoagulant |-> Num(0), prior_disability |-> Num(1),
     discharge_destination |-> <<"h", "o", "m", "e">>, death |-> Num(0),
     discharge_disability |-> Num(2), disability_6_month |-> NaN]

\* thrombolysis given 30 minutes after the scan
Treated(team) ==
    [Untreated(team) EXCEPT !.thrombolysis = Num(1),
                            !.scan_to_thrombolysis_time = Num(30),
                            !.onset_to_arrival_time = Num(90),
                            !.arrival_to_scan_time = Num(15)]

\* thrombolysis recorded 100 minutes before the scan
\* (ArrivaltoThrombolysisMinutes - ArrivaltoBrainImagingMinutes = -100)
TreatedBeforeScan(team) ==
    [Untreated(team) EXCEPT !.thrombolysis = Num(1),
                            !.scan_to_thrombolysis_time = Num(-100),
                            !.arrival_to_scan_time = Num(130)]

\* S2Thrombolysis not recorded
ThrombolysisUnknown(team) ==
    [Untreated(team) EXCEPT !.thrombolysis = NaN,
                            !.discharge_disability = Num(4)]

\* arrival before 2016
Before2016(team) == [Untreated(team) EXCEPT !.year = Num(2015)]

\* onset type 'P' with OnsettoArrivalMinutes <= 0 or not recorded: the 01
\* notebook leaves onset_known = 1 and onset_to_arrival_time missing
OnsetMissing(team) == [Treated(team) EXCEPT !.onset_to_arrival_time = NaN]

Blocks ==
    { [row |-> Treated(<<"A">>), n |-> 250],
      [row |-> Treated(<<"A">>), n |-> 10],
      [row |-> Treated(<<"A">>), n |-> 9],
      [row |-> Untreated(<<"A", " ">>), n |-> 241],
      [row |-> ThrombolysisUnknown(<<"B">>), n |-> 1],
      [row |-> TreatedBeforeScan(<<" ", "B">>), n |-> 250],
      [row |-> Before2016(<<"B">>), n |-> 250] }

BlockSeqs == UNION {[1..k -> Blocks] : k \in 0..MaxBlocks}

FullTables == {[columns |-> CleanColumns, rows |-> bs] : bs \in BlockSeqs}

\* extracts that lack a column the notebook expects
BrokenTables ==
    {DropColumns([columns |-> CleanColumns, rows |-> <<b>>], <<c>>) :
        b \in {x \in Blocks : x.n = 250}, c \in {"year", "disability_6_month"}}

\* a site whose rows all lack the onset to arrival time
OnsetMissingTables ==
    {[columns |-> CleanColumns,
      rows |-> <<[row |-> OnsetMissing(<<"A">>), n |-> 250]>>]}

\* a site with patients who have a thrombolysis time recorded although
\* thrombolysis was not given (S2Thrombolysis 'N' with both times present)
UntreatedWithTime(team) ==
    [Untreated(team) EXCEPT !.scan_to_thrombolysis_time = Num(45)]

RecordedTimeTables ==
    {[columns |-> CleanColumns,
      rows |-> <<[row |-> Treated(<<"A">>), n |-> 10],
                 [row |-> UntreatedWithTime(<<"A">>), n |-> 241]>>]}

InputTables ==
    FullTables \cup BrokenTables \cup OnsetMissingTables \cup RecordedTimeTables

(***************************************************************************)
(* The 02 notebook, one action per group of cells                          *)
(***************************************************************************)
Init ==
    /\ pc = "idle"
    /\ all_data = NoTable
    /\ data = NoTable
    /\ teamCodeFile = Absent
    /\ cohortFile = Absent
    /\ written = {}
    /\ twinFile = Absent
    /\ printed = <<>>
    /\ kf_pc = "idle"
    /\ kf_data = NoTable
    /\ test_folds = <<>>
    /\ counter = 0
    /\ trainFiles = <<>>
    /\ testFiles = <<>>
    /\ cl_pc = "idle"
    /\ raw_data = <<>>
    /\ cleaned_data = <<>>
    /\ issues = <<>>
    /\ new_cleaned_data = <<>>
    /\ cleanFile = Absent
    /\ issuesFile = Absent

\* cell 5: a run starts by loading the cleaned csv
LoadData ==
    /\ pc = "idle"
    /\ \E t \in InputTables : all_data' = t
    /\ data' = NoTable
    /\ written' = {}
    /\ pc' = "filter"
    /\ UNCHANGED <<teamCodeFile, cohortFile, twinFile>>
    /\ printed' = <<>>
    /\ UNCHANGED <<kfoldVars, cleanVars>>

\* cells 6-7 (a missing column raises KeyError)
FilterPatients ==
    /\ pc = "filter"
    /\ IF HasCols(all_data, PatientFilterColumns \cup {"stroke_team"})
       THEN /\ data' = StripTeamsCell(FilterPatientsCell(all_data))
            /\ pc' = "admission_gate"
       ELSE /\ pc' = "failed"
            /\ UNCHANGED data
    /\ UNCHANGED <<all_data, teamCodeFile, cohortFile, written, twinFile, printed>>
    /\ UNCHANGED <<kfoldVars, cleanVars>>

\* cell 9
AdmissionGate ==
    /\ pc = "admission_gate"
    /\ data' = AdmissionGateCell(data)
    /\ pc' = "thrombolysis_gate"
    /\ UNCHANGED <<all_data, teamCodeFile, cohortFile, written, twinFile, printed>>
    /\ UNCHANGED <<kfoldVars, cleanVars>>

\* cell 10
ThrombolysisGate ==
    /\ pc = "thrombolysis_gate"
    /\ IF HasCols(data, {"thrombolysis"})
       THEN /\ data' = ThrombolysisGateCell(data)
            /\ pc' = "edit"
       ELSE /\ pc' = "failed"
            /\ UNCHANGED data
    /\ UNCHANGED <<all_data, teamCodeFile, cohortFile, written, twinFile, printed>>
    /\ UNCHANGED <<kfoldVars, cleanVars>>

\* cells 11-13.  On a table without rows data.apply(..., axis=1) returns a
\* DataFrame, and assigning it to one column raises ValueError.
EditFeatures ==
    /\ pc = "edit"
    /\ IF /\ HasCols(data, {"thrombolysis", "scan_to_thrombolysis_time",
                            "onset_to_arrival_time", "arrival_to_scan_time"})
          /\ Len(data.rows) > 0
       THEN /\ data' = OnsetToThrombolysisCell(SentinelCell(data))
            /\ pc' = "team_code"
       ELSE /\ pc' = "failed"
            /\ UNCHANGED data
    /\ UNCHANGED <<all_data, teamCodeFile, cohortFile, written, twinFile, printed>>
    /\ UNCHANGED <<kfoldVars, cleanVars>>

\* cell 14
TeamCode ==
    /\ pc = "team_code"
    /\ \E order \in SetOrders(Teams(data)) :
        LET out == TeamCodeCell(data, teamCodeFile, order)
        IN  /\ teamCodeFile' = out.file
            /\ data' = out.data
            /\ written' = IF out.wrote THEN written \cup {"team_code"} ELSE written
    /\ pc' = "remove"
    /\ UNCHANGED <<all_data, cohortFile, twinFile, printed>>
    /\ UNCHANGED <<kfoldVars, cleanVars>>

\* cells 15-22: the loop of cell 21 prints every feature it appends; data.drop
\* raises KeyError when a label is not a column
RemoveFeatures ==
    /\ pc = "remove"
    /\ IF Range(remove_features(data)) \subseteq Range(data.columns)
       THEN /\ data' = DropColumns(data, remove_features(data))
            /\ pc' = "save"
       ELSE /\ pc' = "failed"
            /\ UNCHANGED data
    /\ UNCHANGED <<all_data, teamCodeFile, cohortFile, written, twinFile>>
    /\ printed' = ZeroStdFeatures(data)
    /\ UNCHANGED <<kfoldVars, cleanVars>>

\* cell 23
SaveData ==
    /\ pc = "save"
    /\ cohortFile' = File(data)
    /\ written' = written \cup {"cohort"}
    /\ pc' = "done"
    /\ UNCHANGED <<all_data, data, teamCodeFile, twinFile, printed>>
    /\ UNCHANGED <<kfoldVars, cleanVars>>

\* the kernel of a finished or failed run is shut down: the tables in memory
\* are gone, the files stay
EndRun ==
    /\ pc \in {"done", "failed"}
    /\ pc' = "idle"
    /\ all_data' = NoTable
    /\ data' = NoTable
    /\ written' = {}
    /\ UNCHANGED <<teamCodeFile, cohortFile, twinFile>>
    /\ printed' = <<>>
    /\ UNCHANGED <<kfoldVars, cleanVars>>

Next ==
    \/ LoadData
    \/ FilterPatients
    \/ AdmissionGate
    \/ ThrombolysisGate
    \/ EditFeatures
    \/ TeamCode
    \/ RemoveFeatures
    \/ SaveData
    \/ EndRun

Spec == Init /\ [][Next]_vars

\* a second process with its own file system runs cell 14 on the same table
TwinTeamCode ==
    /\ pc = "remove"
    /\ "team_code" \in written
    /\ ~twinFile.exists
    /\ \E order \in SetOrders(Teams(data)) :
        twinFile' = TeamCodeCell(DropColumns(data, <<"stroke_team_id">>),
                                 Absent, order).file
    /\ UNCHANGED <<pc, all_data, data, teamCodeFile, cohortFile, written, printed>>
    /\ UNCHANGED <<kfoldVars, cleanVars>>

NextTwin == Next \/ TwinTeamCode

SpecTwin == Init /\ [][NextTwin]_vars

(***************************************************************************)
(* Properties of the 02 notebook                                           *)
(***************************************************************************)
\* rows of a table, as the set of its (run-length) elements
Rows(t) == {t.rows[i].row : i \in 1..Len(t.rows)}

\* the table on which the hospital gates start: cells 6 and 7 applied to the
\* loaded table
PatientFiltered == StripTeamsCell(FilterPatientsCell(all_data))

\* number of rows of a site, and number of its rows with thrombolysis = 1
RECURSIVE RowsOfSite(_, _)
RowsOfSite(bs, team) ==
    IF bs = <<>> THEN 0
    ELSE (IF Head(bs).row["stroke_team"] = team THEN Head(bs).n ELSE 0)
         + RowsOfSite(Tail(bs), team)

RECURSIVE TreatedOfSite(_, _)
TreatedOfSite(bs, team) ==
    IF bs = <<>> THEN 0
    ELSE (IF /\ Head(bs).row["stroke_team"] = team
             /\ Head(bs).row["thrombolysis"] = Num(1)
          THEN Head(bs).n ELSE 0)
         + TreatedOfSite(Tail(bs), team)

\* the run in progress found no team code file and created it
FirstRun == "team_code" \in written
\* the run in progress found the team code file and used it
LaterRun == pc \in {"remove", "save", "done"} /\ ~FirstRun

FileLabels == {strip(teamCodeFile.content[k].stroke_team) :
                    k \in 1..Len(teamCodeFile.content)}

\* C1: once the team code file exists, no step of any run of the 02 notebook
\* changes it, whatever table the run loads: its content stays what the run
\* that found it absent persisted.
C1_TeamCodeFileNeverRewritten ==
    [][teamCodeFile.exists => teamCodeFile' = teamCodeFile]_vars

\* a later run has passed cell 14 with teams that differ from the file's
C1_Witness ==
    /\ LaterRun
    /\ pc = "remove"
    /\ teamCodeFile.exists
    /\ Teams(data) # FileLabels
    /\ Teams(data) \ FileLabels # {}

\* C3: in a run that found the team code file, every row whose label is in
\* the file carries the code the file stores for it, and every row with a
\* label that is not in the file carries a missing code.
C3_StableCodes ==
    (LaterRun /\ pc = "remove") =>
        \A r \in Rows(data) :
            /\ \A k \in 1..Len(teamCodeFile.content) :
                strip(teamCodeFile.content[k].stroke_team) = r["stroke_team"]
                    => r["stroke_team_id"] = Num(teamCodeFile.content[k].team_code)
            /\ r["stroke_team"] \notin FileLabels => r["stroke_team_id"] = NaN

\* a later run whose table has a site of the file and a site that is new
C3_Witness ==
    /\ LaterRun
    /\ pc = "remove"
    /\ \E r1, r2 \in Rows(data) :
        /\ r1["stroke_team"] \in FileLabels
        /\ r1["stroke_team_id"] # NaN
        /\ r2["stroke_team"] \notin FileLabels

\* C4: the run that creates the team code file persists a bijection between
\* the distinct labels of the gated table and 1..n, and gives every row the
\* code of its label.
C4_FirstRunBijection ==
    (FirstRun /\ pc = "remove") =>
        LET file == teamCodeFile.content
            n == Cardinality(Teams(data))
        IN  /\ Len(file) = n
            /\ {file[k].stroke_team : k \in 1..n} = Teams(data)
            /\ {file[k].team_code : k \in 1..n} = 1..n
            /\ \A r \in Rows(data) : \E k \in 1..n :
                /\ file[k].stroke_team = r["stroke_team"]
                /\ r["stroke_team_id"] = Num(file[k].team_code)
            /\ \A r1, r2 \in Rows(data) :
                (r1["stroke_team_id"] = r2["stroke_team_id"])
                    <=> (r1["stroke_team"] = r2["stroke_team"])

\* a first run over a table with two sites
C4_Witness ==
    /\ FirstRun
    /\ pc = "remove"
    /\ Cardinality(Teams(data)) >= 2
    /\ Len(teamCodeFile.content) >= 2

\* C5: two processes that create the team code file from the same table
\* persist the same file.
C5_SameFileInBothProcesses ==
    twinFile.exists => twinFile = teamCodeFile

\* C6: a run that has failed has written none of its output files.
C6_NoPartialOutput ==
    pc = "failed" => written = {}

\* the tables whose rows carry the composite duration and its three parts:
\* the working table from cell 13 on, and the saved table
CompositeColumns ==
    {"onset_to_arrival_time", "arrival_to_scan_time",
     "scan_to_thrombolysis_time", "onset_to_thrombolysis_time"}

CompositeRows ==
    {r \in Rows(data) \cup (IF cohortFile.exists THEN Rows(cohortFile.content) ELSE {}) :
        CompositeColumns \subseteq DOMAIN r}

SumOfParts(r) ==
    IF \/ r["onset_to_arrival_time"] = NaN
       \/ r["arrival_to_scan_time"] = NaN
       \/ r["scan_to_thrombolysis_time"] = NaN
    THEN NaN
    ELSE Num(r["onset_to_arrival_time"][1] + r["arrival_to_scan_time"][1]
             + r["scan_to_thrombolysis_time"][1])

C8_CompositeFollowsIndicator ==
    pc \in {"team_code", "remove"} =>
        \A r \in Rows(data) :
            IF r["thrombolysis"] = Num(1)
            THEN /\ r["onset_to_thrombolysis_time"] = SumOfParts(r)
                 /\ r["onset_to_thrombolysis_time"] # Num(-100)
            ELSE r["onset_to_thrombolysis_time"] = Num(-100)

\* the rows a site-level rule with both thresholds keeps
KeptByThresholds(t) ==
    SelectSeq(t.rows, LAMBDA b :
        /\ RowsOfSite(t.rows, b.row["stroke_team"]) >= 250
        /\ TreatedOfSite(t.rows, b.row["stroke_team"]) >= 10)

GatesReversed(t) == AdmissionGateCell(ThrombolysisGateCell(t))
GatesInOrder(t) == ThrombolysisGateCell(AdmissionGateCell(t))

\* C10 as stated: when a run has applied its gates, some table that a run
\* can load is gated differently by the two orders, or by the thresholds on
\* the aggregates before any gate.
C10_OrderDependent ==
    pc = "edit" =>
        \E t \in InputTables :
            /\ HasCols(t, PatientFilterColumns \cup {"stroke_team", "thrombolysis"})
            /\ LET pf == StripTeamsCell(FilterPatientsCell(t))
               IN  \/ GatesInOrder(pf) # GatesReversed(pf)
                   \/ GatesInOrder(pf).rows # KeptByThresholds(pf)

\* C10 as amended: the gates are independent of their order: the admissions
\* gate followed by the thrombolysis gate keeps the rows that the other
\* order keeps and that the thresholds on the aggregates before any gate keep.
C10_OrderIndependent ==
    pc = "edit" =>
        /\ data = GatesReversed(PatientFiltered)
        /\ data.rows = KeptByThresholds(PatientFiltered)

\* both gates have run on a table in which each gate removes a site
C10_Witness ==
    /\ pc = "edit"
    /\ AdmissionGateCell(PatientFiltered) # PatientFiltered
    /\ ThrombolysisGateCell(PatientFiltered) # PatientFiltered
    /\ Len(PatientFiltered.rows) > 0

\* the patient filter as a conjunction of conditions on the row
MeetsPatientConditions(r) ==
    /\ r["year"] # NaN /\ r["year"][1] >= 2016
    /\ r["infarction"] = Num(1)
    /\ r["arrive_by_ambulance"] = Num(1)
    /\ r["thrombectomy"] = Num(0)
    /\ r["prior_disability"] # NaN /\ r["prior_disability"][1] >= 0
    /\ r["discharge_disability"] # NaN /\ r["discharge_disability"][1] >= 0
    /\ r["onset_to_arrival_time"] # NaN /\ r["onset_to_arrival_time"][1] > 0
    /\ r["onset_known"] = Num(1)

\* C11: after the patient filter cell the working table holds exactly the
\* loaded rows with year >= 2016, infarction = 1, arrive_by_ambulance = 1,
\* thrombectomy = 0, prior_disability >= 0, discharge_disability >= 0,
\* onset_to_arrival_time > 0 and onset_known = 1, and no row of the saved
\* table has a missing, zero or negative onset_to_arrival_time.
C11_PatientFilterChain ==
    /\ pc = "admission_gate" =>
            data.rows = SelectSeq(StripTeamsCell(all_data).rows,
                            LAMBDA b : MeetsPatientConditions(b.row))
    /\ cohortFile.exists =>
            \A r \in Rows(cohortFile.content) :
                /\ r["onset_to_arrival_time"] # NaN
                /\ r["onset_to_arrival_time"][1] > 0

\* the table a run of the 02 notebook saves for the cleaned table t when it
\* finds the team code file `file`
CohortOf(t, file) ==
    LET gated == ThrombolysisGateCell(AdmissionGateCell(
                    StripTeamsCell(FilterPatientsCell(t))))
        edited == OnsetToThrombolysisCell(SentinelCell(gated))
        coded == TeamCodeCell(edited, file, <<>>).data
    IN  DropColumns(coded, remove_features(coded))

\* C18: the table saved by a run that created the team code file is the
\* table that a run on the same cleaned table saves when it finds that
\* file (same rows, same columns, same stroke_team_id in every row), and
\* such a run leaves the file as it is; every run that finds the file
\* saves that table.
C18_RerunSameCohort ==
    pc = "done" =>
        /\ teamCodeFile.exists
        /\ cohortFile.content = CohortOf(all_data, teamCodeFile)
        /\ TeamCodeCell(data, teamCodeFile, <<>>).file = teamCodeFile

\* a first run has saved a table with two sites and their codes
C18_Witness ==
    /\ pc = "done"
    /\ FirstRun
    /\ Cardinality(Teams(cohortFile.content)) = 2
    /\ \E r1, r2 \in Rows(cohortFile.content) :
            /\ r1["stroke_team_id"] = Num(1)
            /\ r2["stroke_team_id"] = Num(2)

\* every row of t holds the same recorded value in column c
ConstantColumn(t, c) ==
    /\ c \notin TextColumns
    /\ t.rows # <<>>
    /\ \A i \in 1..Len(t.rows) :
            /\ t.rows[i].row[c] # NaN
            /\ t.rows[i].row[c] = t.rows[1].row[c]

\* at least two rows of t hold a recorded value in column c, and all
\* recorded values are the same
ConstantWhereRecorded(t, c) ==
    /\ c \notin TextColumns
    /\ \E i \in 1..Len(t.rows) :
            /\ t.rows[i].row[c] # NaN
            /\ \/ t.rows[i].n >= 2
               \/ \E j \in 1..Len(t.rows) : j # i /\ t.rows[j].row[c] # NaN
            /\ \A j \in 1..Len(t.rows) :
                    t.rows[j].row[c] \in {NaN, t.rows[i].row[c]}

\* the table after the removal has the columns `kept` of the table before,
\* in their order, with the cells of every row unchanged
Projection(before, after, kept) ==
    /\ after.columns = SelectSeq(before.columns, LAMBDA c : c \in kept)
    /\ Len(after.rows) = Len(before.rows)
    /\ \A i \in 1..Len(before.rows) :
            /\ after.rows[i].n = before.rows[i].n
            /\ DOMAIN after.rows[i].row = kept
            /\ \A c \in kept : after.rows[i].row[c] = before.rows[i].row[c]

C24_SentinelWhereNotTreated ==
    [][(pc = "edit" /\ pc' = "team_code") =>
        /\ Len(data'.rows) = Len(data.rows)
        /\ \A i \in 1..Len(data.rows) :
            LET before == data.rows[i].row
                after == data'.rows[i].row
            IN  /\ data'.rows[i].n = data.rows[i].n
                /\ after["thrombolysis"] = before["thrombolysis"]
                /\ after["scan_to_thrombolysis_time"] =
                        IF before["thrombolysis"] = Num(0) THEN Num(-100)
                        ELSE before["scan_to_thrombolysis_time"]]_vars

\* after the edit: untreated patients whose recorded 45 minutes are now
\* -100 beside treated patients who keep their 30 minutes
C24_Witness ==
    /\ pc = "team_code"
    /\ \E b \in Range(all_data.rows) :
            /\ b.row["thrombolysis"] = Num(0)
            /\ b.row["scan_to_thrombolysis_time"] = Num(45)
    /\ \E b \in Range(data.rows) :
            /\ b.row["thrombolysis"] = Num(0)
            /\ b.row["scan_to_thrombolysis_time"] = Num(-100)
    /\ \E b \in Range(data.rows) :
            /\ b.row["thrombolysis"] = Num(1)
            /\ b.row["scan_to_thrombolysis_time"] = Num(30)

(***************************************************************************)
(* 03 Create k-fold data sets                                              *)
(***************************************************************************)
number_of_splits == 5

MaxRows == 6

\* the rows of a table one by one (every run of n rows written out)
RECURSIVE Expand(_)
Expand(bs) ==
    IF bs = <<>> THEN <<>>
    ELSE [i \in 1..Head(bs).n |-> Head(bs).row] \o Expand(Tail(bs))

\* str() of a cell of the float column discharge_disability (0.0 .. 6.0)
Digit(d) ==
    CASE d = 0 -> "0" [] d = 1 -> "1" [] d = 2 -> "2" [] d = 3 -> "3"
      [] d = 4 -> "4" [] d = 5 -> "5" [] d = 6 -> "6"

StrFloat(cell) == IF cell = NaN THEN <<"n", "a", "n">> ELSE <<Digit(cell[1]), ".", "0">>

\* (variant: the key is made from the team code)
strat_by_team_id(X) ==
    [i \in 1..Len(X) |->
        StrFloat(X[i]["stroke_team_id"]) \o <<"-">>
            \o StrFloat(X[i]["discharge_disability"])]

\* cell 4: strat = stroke_team.map(str) + '-' + discharge_disability.map(str)
strat(X) ==
    [i \in 1..Len(X) |->
        X[i]["stroke_team"] \o <<"-">> \o StrFloat(X[i]["discharge_disability"])]

\* StratifiedKFold._make_test_folds: classes numbered from 0 by first appearance
FirstIndex(y, c) == CHOOSE i \in 1..Len(y) : y[i] = c /\ \A j \in 1..i-1 : y[j] # c

y_encoded(y) ==
    [i \in 1..Len(y) |->
        Cardinality({c \in Range(y) : FirstIndex(y, c) < FirstIndex(y, y[i])})]

n_classes(y) == Cardinality(Range(y))

y_counts(y) ==
    LET enc == y_encoded(y)
    IN  [c \in 0..n_classes(y)-1 |->
            Cardinality({i \in 1..Len(y) : enc[i] = c})]

\* y_order = np.sort(y_encoded)
y_order(y) ==
    LET counts == y_counts(y)
    IN  [p \in 1..Len(y) |->
            CHOOSE c \in DOMAIN counts :
                LET below == SumSeq([d \in 1..c |-> counts[d-1]])
                IN  below < p /\ p <= below + counts[c]]

\* allocation[i][c] = np.bincount(y_order[i::n_splits])[c]
allocation(y, n_splits) ==
    LET order == y_order(y)
    IN  [i \in 0..n_splits-1 |->
            [c \in 0..n_classes(y)-1 |->
                Cardinality({p \in 1..Len(y) :
                    (p - 1) % n_splits = i /\ order[p] = c})]]

\* the fold numbers of the rows: for every class, its members receive the
\* fold numbers of the allocation in the order rng.shuffle leaves them in
\* (any order; the generator is seeded with random_state=13)
RECURSIVE FoldAssignments(_, _, _)
FoldAssignments(enc, alloc, n_splits) ==
    IF enc = <<>> THEN {<<>>}
    ELSE LET c == Head(enc)
         IN  UNION {
                {<<i>> \o rest :
                    rest \in FoldAssignments(Tail(enc),
                                [alloc EXCEPT ![i][c] = @ - 1], n_splits)} :
                i \in {j \in 0..n_splits-1 : alloc[j][c] > 0}}

\* split() raises ValueError for fewer samples than splits, and when every
\* class has fewer members than splits
SplitRaises(y, n_splits) ==
    \/ n_splits > Len(y)
    \/ \A c \in 0..n_classes(y)-1 : n_splits > y_counts(y)[c]

\* indices[test_mask] and indices[~test_mask] of fold i, ascending
test_index(folds, i) ==
    SelectSeq([r \in 1..Len(folds) |-> r], LAMBDA r : folds[r] = i)

\* (variant: the training rows are all rows)
train_index_all_rows(folds, i) == [r \in 1..Len(folds) |-> r]

train_index(folds, i) ==
    SelectSeq([r \in 1..Len(folds) |-> r], LAMBDA r : folds[r] # i)

\* reformatted tables small enough to enumerate the shuffles
CohortRow(team, code, disability) ==
    [stroke_team |-> team, stroke_team_id |-> code,
     discharge_disability |-> disability]

FoldRows ==
    { CohortRow(<<"A">>, Num(1), Num(1)), CohortRow(<<"A">>, Num(1), Num(2)),
      CohortRow(<<"B">>, Num(2), Num(1)) }

\* cohorts made with a team code file that lacks the teams B and C (their
\* stroke_team_id is missing), and a cohort with missing disabilities
UncodedTables ==
    {[columns |-> <<"stroke_team", "stroke_team_id", "discharge_disability">>,
      rows |-> <<[row |-> CohortRow(<<"A">>, Num(1), Num(1)), n |-> 5],
                 [row |-> CohortRow(<<"B">>, NaN, Num(1)), n |-> 1],
                 [row |-> CohortRow(<<"C">>, NaN, Num(1)), n |-> 1]>>],
     [columns |-> <<"stroke_team", "stroke_team_id", "discharge_disability">>,
      rows |-> <<[row |-> CohortRow(<<"A">>, Num(1), Num(1)), n |-> 5],
                 [row |-> CohortRow(<<"A">>, Num(1), NaN), n |-> 2]>>]}

FoldTables ==
    {[columns |-> <<"stroke_team", "stroke_team_id", "discharge_disability">>,
      rows |-> [i \in 1..Len(rs) |-> [row |-> rs[i], n |-> 1]]] :
        rs \in UNION {[1..k -> FoldRows] : k \in 0..MaxRows}}
    \cup UncodedTables

\* cells 3-5: load the reformatted csv
KfLoad ==
    /\ kf_pc = "idle"
    /\ \E t \in FoldTables : kf_data' = t
    /\ kf_pc' = "split"
    /\ UNCHANGED <<test_folds, counter, trainFiles, testFiles>>
    /\ UNCHANGED <<reformatVars, cleanVars>>

\* cell 6 up to the first iteration of skf.split(X, y)
KfSplit ==
    /\ kf_pc = "split"
    /\ LET y == strat(Expand(kf_data.rows))
       IN  IF SplitRaises(y, number_of_splits)
           THEN /\ kf_pc' = "failed"
                /\ UNCHANGED test_folds
           ELSE /\ test_folds' \in FoldAssignments(y_encoded(y),
                        allocation(y, number_of_splits), number_of_splits)
                /\ kf_pc' = "loop"
    /\ counter' = 0
    /\ UNCHANGED <<kf_data, trainFiles, testFiles>>
    /\ UNCHANGED <<reformatVars, cleanVars>>

\* one pass of the loop: train and test of fold `counter` are saved
KfWriteFold ==
    /\ kf_pc = "loop"
    /\ trainFiles' = Append(trainFiles, train_index(test_folds, counter))
    /\ testFiles' = Append(testFiles, test_index(test_folds, counter))
    /\ counter' = counter + 1
    /\ kf_pc' = IF counter + 1 = number_of_splits THEN "done" ELSE "loop"
    /\ UNCHANGED <<kf_data, test_folds>>
    /\ UNCHANGED <<reformatVars, cleanVars>>

NextFold ==
    \/ KfLoad
    \/ KfSplit
    \/ KfWriteFold

SpecFold == Init /\ [][NextFold]_vars

\* C2: the test files of the folds written so far are pairwise disjoint, the
\* train and test file of a fold are disjoint and together hold exactly the
\* rows of the input, and when all folds are written every row of the input
\* is in exactly one test file.
C2_FoldsPartitionRows ==
    LET N == Len(Expand(kf_data.rows))
        written_folds == 1..Len(testFiles)
    IN  /\ Len(trainFiles) = Len(testFiles)
        /\ \A f \in written_folds :
            /\ Range(testFiles[f]) \cap Range(trainFiles[f]) = {}
            /\ Range(testFiles[f]) \cup Range(trainFiles[f]) = 1..N
            /\ Len(testFiles[f]) + Len(trainFiles[f]) = N
        /\ \A f, g \in written_folds :
            f # g => Range(testFiles[f]) \cap Range(testFiles[g]) = {}
        /\ kf_pc = "done" =>
            /\ Len(testFiles) = number_of_splits
            /\ \A r \in 1..N :
                Cardinality({f \in written_folds :
                    \E p \in 1..Len(testFiles[f]) : testFiles[f][p] = r}) = 1

\* all folds of a table with two strata are written
C2_Witness ==
    /\ kf_pc = "done"
    /\ Len(testFiles) = number_of_splits
    /\ n_classes(strat(Expand(kf_data.rows))) >= 2
    /\ Len(Expand(kf_data.rows)) > number_of_splits

\* the test files written so far differ in size by at most one row
TestSizesBalanced ==
    \A f, g \in 1..Len(testFiles) :
        Len(testFiles[f]) - Len(testFiles[g]) \in {-1, 0, 1}

\* C20: for every table of at least number_of_splits rows the split
\* completes, also when every stratum has fewer rows than there are folds,
\* and writes number_of_splits train/test pairs whose test files differ in
\* size by at most one row.
C20_SplitCompletesBalanced ==
    /\ Len(Expand(kf_data.rows)) >= number_of_splits => kf_pc # "failed"
    /\ TestSizesBalanced
    /\ kf_pc = "done" =>
            /\ Len(testFiles) = number_of_splits
            /\ Len(trainFiles) = number_of_splits

\* the rows of the loaded cohort and the class that StratifiedKFold gives
\* each of them
FoldInput == Expand(kf_data.rows)
Stratum ==
    LET X == FoldInput
        y == SubSeq(strat(X), 1, Len(X))
    IN  SubSeq(y_encoded(y), 1, Len(X))

\* C26 as stated: once the split is set up, two rows are in the same
\* stratum exactly when they have the same team code (stroke_team_id) and
\* the same discharge_disability.
C26_StrataByTeamCode ==
    kf_pc \in {"loop", "done"} =>
        LET X == FoldInput
            class == Stratum
        IN  \A i, j \in 1..Len(X) :
                (class[i] = class[j]) <=>
                    /\ X[i]["stroke_team_id"] = X[j]["stroke_team_id"]
                    /\ X[i]["discharge_disability"] = X[j]["discharge_disability"]

\* C26 as amended: the key is made from the team name (stroke_team) and
\* discharge_disability; two rows are in the same stratum exactly when
\* they have the same team name and the same discharge_disability, a
\* missing disability counting as one label.
C26_StrataByTeamName ==
    kf_pc \in {"loop", "done"} =>
        LET X == FoldInput
            class == Stratum
        IN  \A i, j \in 1..Len(X) :
                (class[i] = class[j]) <=>
                    /\ X[i]["stroke_team"] = X[j]["stroke_team"]
                    /\ X[i]["discharge_disability"] = X[j]["discharge_disability"]

\* all folds are written for a cohort in which two teams without a team
\* code have patients with the same disability, in different strata
C26_Witness ==
    /\ kf_pc = "done"
    /\ LET X == FoldInput
           class == Stratum
       IN  \E i, j \in 1..Len(X) :
            /\ X[i]["stroke_team"] # X[j]["stroke_team"]
            /\ X[i]["stroke_team_id"] = NaN
            /\ X[j]["stroke_team_id"] = NaN
            /\ X[i]["discharge_disability"] = X[j]["discharge_disability"]
            /\ class[i] # class[j]

(***************************************************************************)
(* 01 Clean raw data                                                       *)
(* The notebook builds cleaned_data column by column from raw_data; every  *)
(* column operation acts on each row separately, so a table is the         *)
(* sequence of its rows and a row is a record of cells.                    *)
(***************************************************************************)
\* Series.map(dict): the value of the key, NaN for a value that is no key.
\* A dict is a set of pairs <<key cell, value cell>>; the key np.nan is NaN.
MapDict(x, dict) ==
    IF \E kv \in dict : kv[1] = x
    THEN (CHOOSE kv \in dict : kv[1] = x)[2]
    ELSE NaN

\* age bands in column order, and the middle of each band in tenths of a
\* year (37.5 is 375)
AgeBands ==
    <<"AgeUnder40", "Age40to44", "Age45to49", "Age50to54", "Age55to59",
      "Age60to64", "Age65to69", "Age70to74", "Age75to79", "Age80to84",
      "Age85to89", "AgeOver90">>

ages ==
    [b \in Range(AgeBands) |->
        CASE b = "AgeUnder40" -> 375 [] b = "Age40to44" -> 425
          [] b = "Age45to49" -> 475 [] b = "Age50to54" -> 525
          [] b = "Age55to59" -> 575 [] b = "Age60to64" -> 625
          [] b = "Age65to69" -> 675 [] b = "Age70to74" -> 725
          [] b = "Age75to79" -> 775 [] b = "Age80to84" -> 825
          [] b = "Age85to89" -> 875 [] b = "AgeOver90" -> 925]

\* DataFrame.max(axis=1) / min(axis=1) over the listed columns, skipping NaN
RowMax(r, cols) ==
    LET present == {r[c][1] : c \in {d \in cols : r[d] # NaN}}
    IN  IF present = {} THEN NaN
        ELSE Num(CHOOSE m \in present : \A v \in present : v <= m)

RowMin(r, cols) ==
    LET present == {r[c][1] : c \in {d \in cols : r[d] # NaN}}
    IN  IF present = {} THEN NaN
        ELSE Num(CHOOSE m \in present : \A v \in present : m <= v)

\* col_extract.idxmax(axis=1): the first band column holding the row maximum
age_band(raw) ==
    LET top == RowMax(raw, Range(AgeBands))
    IN  IF top = NaN THEN NaN
        ELSE Txt(AgeBands[CHOOSE i \in 1..Len(AgeBands) :
                    /\ raw[AgeBands[i]] = top
                    /\ \A j \in 1..i-1 : raw[AgeBands[j]] # top])

AgeColumns(raw) ==
    [age |-> IF age_band(raw) = NaN THEN NaN ELSE Num(ages[age_band(raw)[1]]),
     male |-> MapDict(raw["S1Gender"], {<<Txt("M"), Num(1)>>, <<Txt("F"), Num(0)>>})]

\* (variant: a row without stroke type counts as not an infarction)
infarction_unset_as_zero ==
    {<<Txt("I"), Num(1)>>, <<Txt("PIH"), Num(0)>>, <<NaN, Num(0)>>}

infarction == {<<Txt("I"), Num(1)>>, <<Txt("PIH"), Num(0)>>}

onset_known == {<<Txt("NK"), Num(0)>>, <<Txt("P"), Num(1)>>, <<Txt("BE"), Num(1)>>}
precise_onset_known == {<<Txt("P"), Num(1)>>, <<Txt("BE"), Num(0)>>, <<Txt("NK"), Num(0)>>}
sleep == {<<Txt("DS"), Num(1)>>, <<Txt("P"), Num(0)>>, <<Txt("BE"), Num(0)>>}

OnsetColumns(raw) ==
    [infarction |-> MapDict(raw["S2StrokeType"], infarction),
     onset_to_arrival_time |-> raw["OnsettoArrivalMinutes"],
     onset_known |-> MapDict(raw["S1OnsetTimeType"], onset_known),
     precise_onset_known |-> MapDict(raw["S1OnsetTimeType"], precise_onset_known),
     onset_during_sleep |-> MapDict(raw["S1OnsetDateType"], sleep)]

by_ambulance == {<<Txt("Y"), Num(1)>>, <<Txt("N"), Num(0)>>}

AmbulanceColumns(raw) ==
    [arrive_by_ambulance |-> MapDict(raw["S1ArriveByAmbulance"], by_ambulance),
     call_to_ambulance_arrival_time |->
        SubN(raw["ArrivalPatientLocationtoArrivalMinutes"],
             raw["CallConnectedtoArrivalMinutes"]),
     ambulance_on_scene_time |->
        SubN(raw["DeparturePatientLocationtoArrivalMinutes"],
             raw["ArrivalPatientLocationtoArrivalMinutes"]),
     ambulance_travel_to_hospital_time |->
        SubN(raw["WheelsStoptoArrivalMinutes"],
             raw["DeparturePatientLocationtoArrivalMinutes"]),
     ambulance_wait_time_at_hospital |->
        SubN(Num(0), raw["WheelsStoptoArrivalMinutes"])]

\* pd.to_datetime(..., format='%b-%y'): a month-year text is the pair
\* <<month abbreviation, two-digit year>>; %y puts 00..68 in 2000..2068 and
\* 69..99 in 1969..1999; a text that does not match the format raises
MonthNames ==
    <<"Jan", "Feb", "Mar", "Apr", "May", "Jun",
      "Jul", "Aug", "Sep", "Oct", "Nov", "Dec">>

DateRaises(cell) ==
    /\ cell # NaN
    /\ \/ cell[1][1] \notin Range(MonthNames)
       \/ cell[1][2] \notin 0..99

dt_month(cell) ==
    IF cell = NaN THEN NaN
    ELSE Num(CHOOSE i \in 1..12 : MonthNames[i] = cell[1][1])

dt_year(cell) ==
    IF cell = NaN THEN NaN
    ELSE Num(IF cell[1][2] <= 68 THEN 2000 + cell[1][2] ELSE 1900 + cell[1][2])

arrival_time_dict ==
    {<<Txt("0000to3000"), Num(0)>>, <<Txt("0300to0600"), Num(3)>>,
     <<Txt("0600to0900"), Num(6)>>, <<Txt("0900to1200"), Num(9)>>,
     <<Txt("1200to1500"), Num(12)>>, <<Txt("1500to1800"), Num(15)>>,
     <<Txt("1800to2100"), Num(18)>>, <<Txt("2100to2400"), Num(21)>>}

ArrivalColumns(raw) ==
    [month |-> dt_month(raw["FirstArrivalMonthYear"]),
     year |-> dt_year(raw["FirstArrivalMonthYear"]),
     weekday |-> raw["FirstArrivalWeekday"],
     arrival_time_3_hour_period |-> MapDict(raw["FirstArrivalTime"], arrival_time_dict)]

thrombolysis == {<<Txt("Y"), Num(1)>>, <<Txt("N"), Num(0)>>, <<Txt("NB"), Num(0)>>}

TreatmentColumns(raw) ==
    [arrival_to_scan_time |-> raw["ArrivaltoBrainImagingMinutes"],
     thrombolysis |-> MapDict(raw["S2Thrombolysis"], thrombolysis),
     scan_to_thrombolysis_time |->
        SubN(raw["ArrivaltoThrombolysisMinutes"], raw["ArrivaltoBrainImagingMinutes"]),
     thrombectomy |->
        IF raw["ArrivaltoArterialPunctureMinutes"] = NaN THEN Num(0) ELSE Num(1),
     arrival_to_thrombectomy_time |-> raw["ArrivaltoArterialPunctureMinutes"]]

\* raw column -> cleaned column
comorbidities ==
    {<<"S2CoMCongestiveHeartFailure", "congestive_heart_failure">>,
     <<"S2CoMHypertension", "hypertension">>,
     <<"S2CoMAtrialFibrillation", "atrial_fibrillation">>,
     <<"S2CoMDiabetes", "diabetes">>,
     <<"S2CoMStrokeTIA", "prior_stroke_tia">>,
     <<"S2CoMAFAntiplatelet", "afib_antiplatelet">>,
     <<"S2CoMAFAnticoagulent", "afib_anticoagulant">>}

comorbid_marker ==
    {<<Txt("Y"), Num(1)>>, <<Txt("N"), Num(0)>>, <<Txt("NB"), Num(0)>>, <<NaN, NaN>>}

anticoag_type ==
    {<<"S2CoMAFAnticoagulentVitK", "afib_vit_k_anticoagulant">>,
     <<"S2CoMAFAnticoagulentDOAC", "afib_doac_anticoagulant">>,
     <<"S2CoMAFAnticoagulentHeparin", "afib_heparin_anticoagulant">>}

anticoag_type_map == {<<Num(1), Num(1)>>, <<Num(0), Num(0)>>, <<NaN, Num(0)>>}

new_afib == {<<Txt("Y"), Num(1)>>, <<Txt("N"), Num(0)>>, <<NaN, Num(0)>>}

RawOf(pairs, col) == (CHOOSE kv \in pairs : kv[2] = col)[1]

\* (variant: afib_anticoagulant is not mapped a second time)
ComorbidityColumnsMappedOnce(raw) ==
    LET mapped == [c \in {kv[2] : kv \in comorbidities} |->
                        MapDict(raw[RawOf(comorbidities, c)], comorbid_marker)]
        fixed == [mapped EXCEPT
                    !["afib_antiplatelet"] =
                        IF EqN(mapped["atrial_fibrillation"], 0) /\ IsNull(@)
                        THEN Num(0) ELSE @]
        types == [c \in {kv[2] : kv \in anticoag_type} |->
                        MapDict(raw[RawOf(anticoag_type, c)], anticoag_type_map)]
        newaf == MapDict(raw["S2NewAFDiagnosis"], new_afib)
    IN  fixed @@ types @@
        [new_afib_diagnosis |-> newaf,
         any_afib_diagnosis |->
            RowMax([a |-> fixed["atrial_fibrillation"], b |-> newaf], {"a", "b"})]

\* the comorbidity cells in order: map Y/N/NB, antiplatelet NaN -> 0 without
\* atrial fibrillation, anticoagulant types, new AF diagnosis, afib_anticoagulant
\* mapped a second time with anticoag_type_map, any AF diagnosis
ComorbidityColumns(raw) ==
    LET mapped == [c \in {kv[2] : kv \in comorbidities} |->
                        MapDict(raw[RawOf(comorbidities, c)], comorbid_marker)]
        fixed == [mapped EXCEPT
                    !["afib_antiplatelet"] =
                        IF EqN(mapped["atrial_fibrillation"], 0) /\ IsNull(@)
                        THEN Num(0) ELSE @,
                    !["afib_anticoagulant"] = MapDict(@, anticoag_type_map)]
        types == [c \in {kv[2] : kv \in anticoag_type} |->
                        MapDict(raw[RawOf(anticoag_type, c)], anticoag_type_map)]
        newaf == MapDict(raw["S2NewAFDiagnosis"], new_afib)
    IN  fixed @@ types @@
        [new_afib_diagnosis |-> newaf,
         any_afib_diagnosis |->
            RowMax([a |-> fixed["atrial_fibrillation"], b |-> newaf], {"a", "b"})]

\* NIHSS arrival measures, and their names after camel_to_snake and the
\* removal of 's2_'
nihss ==
    <<"S2NihssArrivalLoc", "S2NihssArrivalLocQuestions",
      "S2NihssArrivalLocCommands", "S2NihssArrivalBestGaze",
      "S2NihssArrivalVisual", "S2NihssArrivalFacialPalsy",
      "S2NihssArrivalMotorArmLeft", "S2NihssArrivalMotorArmRight",
      "S2NihssArrivalMotorLegLeft", "S2NihssArrivalMotorLegRight",
      "S2NihssArrivalLimbAtaxia", "S2NihssArrivalSensory",
      "S2NihssArrivalBestLanguage", "S2NihssArrivalDysarthria",
      "S2NihssArrivalExtinctionInattention">>

nihss_renamed ==
    <<"nihss_arrival_loc", "nihss_arrival_loc_questions",
      "nihss_arrival_loc_commands", "nihss_arrival_best_gaze",
      "nihss_arrival_visual", "nihss_arrival_facial_palsy",
      "nihss_arrival_motor_arm_left", "nihss_arrival_motor_arm_right",
      "nihss_arrival_motor_leg_left", "nihss_arrival_motor_leg_right",
      "nihss_arrival_limb_ataxia", "nihss_arrival_sensory",
      "nihss_arrival_best_language", "nihss_arrival_dysarthria",
      "nihss_arrival_extinction_inattention">>

IndexOf(names, c) == CHOOSE i \in 1..Len(names) : names[i] = c

NihssColumns(raw) ==
    [c \in Range(nihss_renamed) |->
        LET source == nihss[IndexOf(nihss_renamed, c)]
        IN  IF source # "S2NihssArrivalLoc" /\ raw[source] = Num(-1)
            THEN NaN ELSE raw[source]]
    @@
    [prior_disability |-> raw["S2RankinBeforeStroke"],
     stroke_severity |-> raw["S2NihssArrival"],
     nihss_complete |->
        IF RowMin(raw, Range(nihss)) = Num(-1) THEN Num(0) ELSE Num(1)]

discharge ==
    {<<Txt("CH"), Txt("care_home")>>, <<Txt("D"), Txt("died")>>,
     <<Txt("H"), Txt("home")>>, <<Txt("SE"), Txt("somewhere_else")>>,
     <<Txt("TC"), Txt("community_team_or_esd")>>,
     <<Txt("TCN"), Txt("community_team_or_esd")>>,
     <<Txt("TN"), Txt("non_ssnap_hospital_team")>>,
     <<Txt("T"), Txt("ssnap_hospital_team")>>,
     <<NaN, Txt("missing")>>}

OutcomeColumns(raw) ==
    [discharge_destination |-> MapDict(raw["S7DischargeType"], discharge),
     death |-> IF GeN(raw["ArrivalToDeathDays"], 0) THEN Num(1) ELSE Num(0),
     discharge_disability |-> raw["S7RankinDischarge"],
     disability_6_month |-> raw["S8Rankin6Month"]]

make_no_thrombolysis(raw, category) ==
    LET thrombolysis_no ==
            {<<Txt(k), Num(IF k = category THEN 1 ELSE 0)>> :
                k \in {"TNA", "OTSH", "USQE", "N"}} \cup {<<NaN, Num(0)>>}
    IN  MapDict(raw["S2ThrombolysisNoReason"], thrombolysis_no)

no_thrombolysis ==
    <<"S2ThrombolysisNoButHaemorrhagic", "S2ThrombolysisNoButTimeWindow",
      "S2ThrombolysisNoButComorbidity", "S2ThrombolysisNoButMedication",
      "S2ThrombolysisNoButRefusal", "S2ThrombolysisNoButAge",
      "S2ThrombolysisNoButImproving", "S2ThrombolysisNoButTooMildSevere",
      "S2ThrombolysisNoButTimeUnknownWakeUp",
      "S2ThrombolysisNoButOtherMedical">>

no_thrombolysis_renamed ==
    <<"thrombolysis_no_but_haemorrhagic", "thrombolysis_no_but_time_window",
      "thrombolysis_no_but_comorbidity", "thrombolysis_no_but_medication",
      "thrombolysis_no_but_refusal", "thrombolysis_no_but_age",
      "thrombolysis_no_but_improving", "thrombolysis_no_but_too_mild_severe",
      "thrombolysis_no_but_time_unknown_wake_up",
      "thrombolysis_no_but_other_medical">>

NoThrombolysisColumns(raw) ==
    [thrombolysis_no_not_available |-> make_no_thrombolysis(raw, "TNA"),
     thrombolysis_no_out_of_hours |-> make_no_thrombolysis(raw, "OTSH"),
     thrombolysis_no_scan_not_quick_enough |-> make_no_thrombolysis(raw, "USQE"),
     thrombolysis_no_no_reason |-> make_no_thrombolysis(raw, "N")]
    @@
    [c \in Range(no_thrombolysis_renamed) |->
        raw[no_thrombolysis[IndexOf(no_thrombolysis_renamed, c)]]]

\* the row of cleaned_data built from a raw row by the cells "ID" to
\* "Reasons for no thrombolysis"
CleanRow(raw) ==
    [id |-> raw["PatientId"],
     stroke_team |-> rstrip(raw["TeamName"])]
    @@ AgeColumns(raw) @@ OnsetColumns(raw) @@ AmbulanceColumns(raw)
    @@ ArrivalColumns(raw) @@ TreatmentColumns(raw) @@ ComorbidityColumns(raw)
    @@ NihssColumns(raw) @@ OutcomeColumns(raw) @@ NoThrombolysisColumns(raw)

(***************************************************************************)
(* 01: deal with unusual results.  Each pass computes its masks on the     *)
(* table as the previous pass left it, sets cells to NaN and logs the      *)
(* masks in the issues table.                                              *)
(***************************************************************************)
amb_col ==
    {"call_to_ambulance_arrival_time", "ambulance_on_scene_time",
     "ambulance_travel_to_hospital_time", "ambulance_wait_time_at_hospital"}

amb_except_wait ==
    {"call_to_ambulance_arrival_time", "ambulance_on_scene_time",
     "ambulance_travel_to_hospital_time"}

\* the masks of the ambulance cell, for one row
AmbulanceMasks(r) ==
    [time_all_missing |-> \A c \in amb_col : IsNull(r[c]),
     time_missing |-> \E c \in amb_col : IsNull(r[c]),
     time_negative |-> \E c \in amb_col : LtN(r[c], 0),
     time_zero |-> \E c \in amb_except_wait : EqN(r[c], 0),
     times_but_no_amb |->
        /\ EqN(r["arrive_by_ambulance"], 0)
        /\ \E c \in amb_col : ~IsNull(r[c]),
     call_time_high |-> GtN(r["call_to_ambulance_arrival_time"], 1440),
     scene_time_high |-> GtN(r["ambulance_on_scene_time"], 720),
     travel_time_high |-> GtN(r["ambulance_travel_to_hospital_time"], 360),
     wait_time_high |-> GtN(r["ambulance_wait_time_at_hospital"], 720)]

SetNaN(r, cols) == [c \in DOMAIN r |-> IF c \in cols THEN NaN ELSE r[c]]

\* (variant: a long wait at hospital does not clear the times)
AmbulanceCleanKeepingLongWait(r) ==
    LET m == AmbulanceMasks(r)
        r1 == IF \/ m.time_missing \/ m.time_negative \/ m.time_zero
                 \/ m.call_time_high \/ m.scene_time_high
                 \/ m.travel_time_high
              THEN SetNaN(r, amb_col) ELSE r
    IN  IF m.times_but_no_amb
        THEN SetNaN(r1, amb_col \cup {"arrive_by_ambulance"}) ELSE r1

\* (variant: a zero duration does not clear the times)
AmbulanceCleanKeepingZero(r) ==
    LET m == AmbulanceMasks(r)
        r1 == IF \/ m.time_missing \/ m.time_negative
                 \/ m.call_time_high \/ m.scene_time_high
                 \/ m.travel_time_high \/ m.wait_time_high
              THEN SetNaN(r, amb_col) ELSE r
    IN  IF m.times_but_no_amb
        THEN SetNaN(r1, amb_col \cup {"arrive_by_ambulance"}) ELSE r1

AmbulanceClean(r) ==
    LET m == AmbulanceMasks(r)
        r1 == IF \/ m.time_missing \/ m.time_negative \/ m.time_zero
                 \/ m.call_time_high \/ m.scene_time_high
                 \/ m.travel_time_high \/ m.wait_time_high
              THEN SetNaN(r, amb_col) ELSE r
    IN  IF m.times_but_no_amb
        THEN SetNaN(r1, amb_col \cup {"arrive_by_ambulance"}) ELSE r1

AmbulanceLog(r) ==
    LET m == AmbulanceMasks(r)
    IN  [time_some_missing |-> ~m.time_all_missing /\ m.time_missing,
         time_negative |-> m.time_negative,
         time_zero |-> m.time_zero,
         times_but_no_amb |-> m.times_but_no_amb,
         call_time_high |-> m.call_time_high,
         scene_time_high |-> m.scene_time_high,
         travel_time_high |-> m.travel_time_high,
         wait_time_high |-> m.wait_time_high]

onset_negative(r) == LeN(r["onset_to_arrival_time"], 0)
onset_unknown(r) == EqN(r["onset_known"], 0)

OnsetClean(r) ==
    IF onset_negative(r) \/ onset_unknown(r)
    THEN SetNaN(r, {"onset_to_arrival_time"}) ELSE r

anticoag_discrep(r) ==
    /\ EqN(r["afib_anticoagulant"], 0)
    /\ \/ EqN(r["afib_vit_k_anticoagulant"], 1)
       \/ EqN(r["afib_doac_anticoagulant"], 1)
       \/ EqN(r["afib_heparin_anticoagulant"], 1)

AnticoagClean(r) ==
    IF anticoag_discrep(r)
    THEN SetNaN(r, {"afib_anticoagulant", "afib_vit_k_anticoagulant",
                    "afib_doac_anticoagulant", "afib_heparin_anticoagulant"})
    ELSE r

any_death(r) ==
    \/ EqN(r["death"], 1)
    \/ EqN(r["discharge_disability"], 6)
    \/ EqN(r["discharge_destination"], "died")

all_or_missing_death(r) ==
    /\ (EqN(r["death"], 1) \/ IsNull(r["death"]))
    /\ (EqN(r["discharge_disability"], 6) \/ IsNull(r["discharge_disability"]))
    /\ (EqN(r["discharge_destination"], "died") \/ IsNull(r["discharge_destination"]))

inconsistent_death(r) == any_death(r) /\ ~all_or_missing_death(r)

DeathClean(r) ==
    IF inconsistent_death(r)
    THEN SetNaN(r, {"death", "discharge_disability", "discharge_destination"})
    ELSE r

\* element-wise operations on the rows of a table
EachRow(t, F(_)) == [i \in 1..Len(t) |-> F(t[i])]
\* a new column group for every row of the issues table, computed from the
\* row of cleaned_data with the same index
LogIssues(log, t, F(_)) == [i \in 1..Len(log) |-> log[i] @@ F(t[i])]

(***************************************************************************)
(* Raw extracts: what the 01 notebook can find in the raw csv              *)
(***************************************************************************)
\* a thrombolysed infarction patient of 70 to 74 years brought by ambulance;
\* event times are minutes relative to arrival at hospital
BaseRaw ==
    [b \in Range(AgeBands) |-> IF b = "Age70to74" THEN Num(1) ELSE Num(0)]
    @@ [c \in Range(nihss) |-> Num(1)]
    @@ [c \in Range(no_thrombolysis) |-> Num(0)]
    @@ [c \in {kv[1] : kv \in comorbidities} |-> Txt("N")]
    @@ [c \in {kv[1] : kv \in anticoag_type} |-> Num(0)]
    @@
    [PatientId |-> Num(1), TeamName |-> <<"A">>, S1Gender |-> Txt("F"),
     S2StrokeType |-> Txt("I"), OnsettoArrivalMinutes |-> Num(60),
     S1OnsetTimeType |-> Txt("P"), S1OnsetDateType |-> Txt("P"),
     S1ArriveByAmbulance |-> Txt("Y"),
     CallConnectedtoArrivalMinutes |-> Num(-60),
     ArrivalPatientLocationtoArrivalMinutes |-> Num(-45),
     DeparturePatientLocationtoArrivalMinutes |-> Num(-25),
     WheelsStoptoArrivalMinutes |-> Num(-5),
     FirstArrivalMonthYear |-> Txt(<<"Jan", 17>>),
     FirstArrivalWeekday |-> Txt("Monday"),
     FirstArrivalTime |-> Txt("0900to1200"),
     ArrivaltoBrainImagingMinutes |-> Num(20), S2Thrombolysis |-> Txt("Y"),
     ArrivaltoThrombolysisMinutes |-> Num(50),
     ArrivaltoArterialPunctureMinutes |-> NaN,
     S2NewAFDiagnosis |-> Txt("N"), S2RankinBeforeStroke |-> Num(1),
     S2NihssArrival |-> Num(15), S7DischargeType |-> Txt("H"),
     ArrivalToDeathDays |-> NaN, S7RankinDischarge |-> Num(2),
     S8Rankin6Month |-> NaN, S2ThrombolysisNoReason |-> NaN]

\* BaseRaw with the listed cells replaced
With(r, cells) == [c \in DOMAIN r |-> IF c \in DOMAIN cells THEN cells[c] ELSE r[c]]

YesNo == {Txt("Y"), Txt("N"), NaN}

StrokeTypeRows ==
    {With(BaseRaw, [S2StrokeType |-> t, TeamName |-> team]) :
        t \in {Txt("I"), Txt("PIH"), Txt("U"), NaN},
        team \in {<<"A">>, <<"B", " ">>, <<" ", "B">>}}

OnsetRows ==
    {With(BaseRaw, [OnsettoArrivalMinutes |-> m, S1OnsetTimeType |-> t,
                    S1OnsetDateType |-> d]) :
        m \in {Num(-5), Num(0), Num(60), NaN},
        t \in {Txt("P"), Txt("BE"), Txt("NK"), NaN},
        d \in {Txt("DS"), Txt("P"), NaN}}

\* call connected, arrival at patient, departure from patient, wheels stop
AmbulanceTimes ==
    {<<Num(-60), Num(-45), Num(-25), Num(-5)>>,
     <<NaN, NaN, NaN, NaN>>,
     <<NaN, Num(-45), Num(-25), Num(-5)>>,
     <<Num(-60), Num(-45), Num(-25), NaN>>,
     <<Num(-40), Num(-45), Num(-25), Num(-5)>>,
     <<Num(-45), Num(-45), Num(-25), Num(-5)>>,
     <<Num(-60), Num(-45), Num(-25), Num(0)>>,
     <<Num(-60), Num(-45), Num(-25), Num(5)>>,
     <<Num(-1485), Num(-45), Num(-25), Num(-5)>>,
     <<Num(-1486), Num(-45), Num(-25), Num(-5)>>,
     <<Num(-800), Num(-770), Num(-50), Num(-5)>>,
     <<Num(-800), Num(-771), Num(-50), Num(-5)>>,
     <<Num(-400), Num(-390), Num(-370), Num(-10)>>,
     <<Num(-400), Num(-390), Num(-371), Num(-10)>>,
     <<Num(-800), Num(-790), Num(-770), Num(-720)>>,
     <<Num(-800), Num(-790), Num(-770), Num(-721)>>,
     <<Num(-3000), Num(-1500), Num(-721), Num(-721)>>}

AmbulanceRows ==
    {With(BaseRaw, [S1ArriveByAmbulance |-> a,
                    CallConnectedtoArrivalMinutes |-> t[1],
                    ArrivalPatientLocationtoArrivalMinutes |-> t[2],
                    DeparturePatientLocationtoArrivalMinutes |-> t[3],
                    WheelsStoptoArrivalMinutes |-> t[4]]) :
        a \in YesNo, t \in AmbulanceTimes}

TreatmentRows ==
    {With(BaseRaw, [ArrivaltoBrainImagingMinutes |-> scan, S2Thrombolysis |-> given,
                    ArrivaltoThrombolysisMinutes |-> needle,
                    ArrivaltoArterialPunctureMinutes |-> puncture]) :
        scan \in {Num(20), Num(-3), NaN},
        given \in {Txt("Y"), Txt("N"), Txt("NB"), NaN},
        needle \in {Num(50), Num(10), NaN},
        puncture \in {Num(120), Num(-2), NaN}}

ComorbidityRows ==
    {With(BaseRaw, [S2CoMAtrialFibrillation |-> af, S2CoMAFAntiplatelet |-> ap,
                    S2CoMAFAnticoagulent |-> ac, S2NewAFDiagnosis |-> new,
                    S2CoMDiabetes |-> af]) :
        af \in YesNo \cup {Txt("NB")}, ap \in YesNo, ac \in YesNo, new \in YesNo}
    \cup
    {With(BaseRaw, [c \in {col} |-> v]) :
        col \in {kv[1] : kv \in comorbidities},
        v \in YesNo \cup {Txt("NB")}}

AnticoagulantRows ==
    {With(BaseRaw, [S2CoMAFAnticoagulent |-> ac,
                    S2CoMAFAnticoagulentVitK |-> k,
                    S2CoMAFAnticoagulentDOAC |-> d,
                    S2CoMAFAnticoagulentHeparin |-> h]) :
        ac \in YesNo, k \in {Num(0), Num(1), Num(2), NaN},
        d \in {Num(0), Num(1)}, h \in {Num(0), Num(1), NaN}}

DeathRows ==
    {With(BaseRaw, [ArrivalToDeathDays |-> days, S7RankinDischarge |-> rankin,
                    S7DischargeType |-> type]) :
        days \in {NaN, Num(0), Num(3)},
        rankin \in {NaN, Num(2), Num(6)},
        type \in {NaN, Txt("D"), Txt("H"), Txt("X")}}

\* one age band, no age band, two age bands
AgeRows ==
    {With(BaseRaw, [b \in Range(AgeBands) |-> IF b \in active THEN Num(1) ELSE Num(0)]) :
        active \in {{b} : b \in Range(AgeBands)}
                   \cup {{}, {"Age40to44", "Age80to84"}, {"Age85to89", "AgeOver90"}}}

\* -1 marks an NIHSS item that was not assessed
NihssRows ==
    {With(BaseRaw, [c \in items |-> v]) :
        items \in {{"S2NihssArrivalLoc"}, {"S2NihssArrivalSensory"}, Range(nihss)},
        v \in {Num(-1), Num(0), NaN}}

ReasonRows ==
    {With(BaseRaw, [S2Thrombolysis |-> Txt("N"), ArrivaltoThrombolysisMinutes |-> NaN,
                    S2ThrombolysisNoReason |-> reason]) :
        reason \in {Txt("TNA"), Txt("OTSH"), Txt("USQE"), Txt("N"), NaN}}
    \cup
    {With(BaseRaw, [S2Thrombolysis |-> Txt("NB"), ArrivaltoThrombolysisMinutes |-> NaN]
                   @@ [c \in cols |-> v]) :
        cols \in {{"S2ThrombolysisNoButAge"}, Range(no_thrombolysis)},
        v \in {Num(0), Num(1), Num(2), NaN}}

ArrivalRows ==
    {With(BaseRaw, [FirstArrivalMonthYear |-> my, FirstArrivalTime |-> t,
                    S1Gender |-> g]) :
        my \in {Txt(<<"Jan", 17>>), Txt(<<"Dec", 15>>), Txt(<<"Feb", 99>>),
                Txt(<<"2017", 1>>), NaN},
        t \in {Txt("0000to0300"), Txt("0300to0600"), NaN},
        g \in {Txt("M"), Txt("F"), Txt("U"), NaN}}

RawRows ==
    StrokeTypeRows \cup OnsetRows \cup AmbulanceRows \cup TreatmentRows
    \cup ComorbidityRows \cup AnticoagulantRows \cup DeathRows \cup AgeRows
    \cup NihssRows \cup ReasonRows \cup ArrivalRows

\* extracts of several patients, some without a recorded stroke type
MaxRawRows == 3

MixedRows ==
    {With(BaseRaw, [S2StrokeType |-> t, S1ArriveByAmbulance |-> a]) :
        t \in {Txt("I"), NaN}, a \in {Txt("Y"), Txt("N")}}

\* PatientId numbers the rows of the extract
Numbered(rows) == [i \in 1..Len(rows) |-> With(rows[i], [PatientId |-> Num(i)])]

RawTables ==
    {<<r>> : r \in RawRows}
    \cup {Numbered(rows) : rows \in UNION {[1..k -> MixedRows] : k \in 0..MaxRawRows}}

(***************************************************************************)
(* The 01 notebook, one action per group of cells                          *)
(***************************************************************************)
\* "Load and view data"
ClLoad ==
    /\ cl_pc = "idle"
    /\ \E t \in RawTables : raw_data' = t
    /\ cleaned_data' = <<>>
    /\ issues' = <<>>
    /\ new_cleaned_data' = <<>>
    /\ cl_pc' = "create"
    /\ UNCHANGED <<cleanFile, issuesFile>>
    /\ UNCHANGED <<reformatVars, kfoldVars>>

\* "Create clean version of data": every column of cleaned_data; the arrival
\* cell raises when a month-year text does not match the format
ClCreate ==
    /\ cl_pc = "create"
    /\ IF \E i \in 1..Len(raw_data) : DateRaises(raw_data[i]["FirstArrivalMonthYear"])
       THEN /\ cl_pc' = "failed"
            /\ UNCHANGED cleaned_data
       ELSE /\ cleaned_data' = EachRow(raw_data, CleanRow)
            /\ cl_pc' = "ambulance"
    /\ UNCHANGED <<raw_data, issues, new_cleaned_data, cleanFile, issuesFile>>
    /\ UNCHANGED <<reformatVars, kfoldVars>>

\* (variant: the issue columns are computed after the cleaning)
ClAmbulanceLogAfterClean ==
    /\ cl_pc = "ambulance"
    /\ cleaned_data' = EachRow(cleaned_data, AmbulanceClean)
    /\ issues' = LogIssues(EachRow(cleaned_data, LAMBDA r : [stroke_team |-> r["stroke_team"]]),
                           EachRow(cleaned_data, AmbulanceClean), AmbulanceLog)
    /\ cl_pc' = "onset"
    /\ UNCHANGED <<raw_data, new_cleaned_data, cleanFile, issuesFile>>
    /\ UNCHANGED <<reformatVars, kfoldVars>>

\* the issues log is created with the team of every row; "Unusual ambulance times"
ClAmbulance ==
    /\ cl_pc = "ambulance"
    /\ cleaned_data' = EachRow(cleaned_data, AmbulanceClean)
    /\ issues' = LogIssues(EachRow(cleaned_data, LAMBDA r : [stroke_team |-> r["stroke_team"]]),
                           cleaned_data, AmbulanceLog)
    /\ cl_pc' = "onset"
    /\ UNCHANGED <<raw_data, new_cleaned_data, cleanFile, issuesFile>>
    /\ UNCHANGED <<reformatVars, kfoldVars>>

\* (variant: only onset times below zero are logged as onset_negative)
ClOnsetLogBelowZero ==
    /\ cl_pc = "onset"
    /\ cleaned_data' = EachRow(cleaned_data, OnsetClean)
    /\ issues' = LogIssues(issues, cleaned_data, LAMBDA r :
                    [onset_negative |-> LtN(r["onset_to_arrival_time"], 0),
                     onset_unknown |-> onset_unknown(r)])
    /\ cl_pc' = "anticoag"
    /\ UNCHANGED <<raw_data, new_cleaned_data, cleanFile, issuesFile>>
    /\ UNCHANGED <<reformatVars, kfoldVars>>

\* "Unusual onset to arrival times"
ClOnset ==
    /\ cl_pc = "onset"
    /\ cleaned_data' = EachRow(cleaned_data, OnsetClean)
    /\ issues' = LogIssues(issues, cleaned_data, LAMBDA r :
                    [onset_negative |-> onset_negative(r),
                     onset_unknown |-> onset_unknown(r)])
    /\ cl_pc' = "anticoag"
    /\ UNCHANGED <<raw_data, new_cleaned_data, cleanFile, issuesFile>>
    /\ UNCHANGED <<reformatVars, kfoldVars>>

\* "Inconsistent anticoagulant data"
ClAnticoag ==
    /\ cl_pc = "anticoag"
    /\ cleaned_data' = EachRow(cleaned_data, AnticoagClean)
    /\ issues' = LogIssues(issues, cleaned_data, LAMBDA r :
                    [anticoag_discrep |-> anticoag_discrep(r)])
    /\ cl_pc' = "death"
    /\ UNCHANGED <<raw_data, new_cleaned_data, cleanFile, issuesFile>>
    /\ UNCHANGED <<reformatVars, kfoldVars>>

\* "Inconsistent death markers"
ClDeath ==
    /\ cl_pc = "death"
    /\ cleaned_data' = EachRow(cleaned_data, DeathClean)
    /\ issues' = LogIssues(issues, cleaned_data, LAMBDA r :
                    [inconsistent_death |-> inconsistent_death(r)])
    /\ cl_pc' = "remove"
    /\ UNCHANGED <<raw_data, new_cleaned_data, cleanFile, issuesFile>>
    /\ UNCHANGED <<reformatVars, kfoldVars>>

\* (variant: the issues log is filtered with the same mask)
ClRemovePatientsWithIssues ==
    /\ cl_pc = "remove"
    /\ issues' = SelectSeq(
                    LogIssues(issues, cleaned_data, LAMBDA r :
                        [missing_stroke_type |-> IsNull(r["infarction"])]),
                    LAMBDA l : ~l.missing_stroke_type)
    /\ new_cleaned_data' = SelectSeq(cleaned_data, LAMBDA r : ~IsNull(r["infarction"]))
    /\ cl_pc' = "save"
    /\ UNCHANGED <<raw_data, cleaned_data, cleanFile, issuesFile>>
    /\ UNCHANGED <<reformatVars, kfoldVars>>

\* "Remove patients"
ClRemovePatients ==
    /\ cl_pc = "remove"
    /\ issues' = LogIssues(issues, cleaned_data, LAMBDA r :
                    [missing_stroke_type |-> IsNull(r["infarction"])])
    /\ new_cleaned_data' = SelectSeq(cleaned_data, LAMBDA r : ~IsNull(r["infarction"]))
    /\ cl_pc' = "save"
    /\ UNCHANGED <<raw_data, cleaned_data, cleanFile, issuesFile>>
    /\ UNCHANGED <<reformatVars, kfoldVars>>

\* (variant: only the issue rows of the kept patients are saved)
ClSaveIssuesOfKeptRows ==
    /\ cl_pc = "save"
    /\ cleanFile' = File(new_cleaned_data)
    /\ issuesFile' = File(SelectSeq(issues, LAMBDA l : ~l.missing_stroke_type))
    /\ cl_pc' = "done"
    /\ UNCHANGED <<raw_data, cleaned_data, issues, new_cleaned_data>>
    /\ UNCHANGED <<reformatVars, kfoldVars>>

\* "Save cleaned data"
ClSave ==
    /\ cl_pc = "save"
    /\ cleanFile' = File(new_cleaned_data)
    /\ issuesFile' = File(issues)
    /\ cl_pc' = "done"
    /\ UNCHANGED <<raw_data, cleaned_data, issues, new_cleaned_data>>
    /\ UNCHANGED <<reformatVars, kfoldVars>>

NextClean ==
    \/ ClLoad
    \/ ClCreate
    \/ ClAmbulance
    \/ ClOnset
    \/ ClAnticoag
    \/ ClDeath
    \/ ClRemovePatients
    \/ ClSave

SpecClean == Init /\ [][NextClean]_vars

(***************************************************************************)
(* Properties of the 01 notebook                                           *)
(***************************************************************************)
\* positions of the raw rows with a stroke type the notebook recognises
TypedRows == {i \in 1..Len(raw_data) : raw_data[i]["S2StrokeType"] \in {Txt("I"), Txt("PIH")}}

\* the positions in S in ascending order
RECURSIVE Ascending(_)
Ascending(S) ==
    IF S = {} THEN <<>>
    ELSE LET m == CHOOSE x \in S : \A y \in S : x <= y
         IN  <<m>> \o Ascending(S \ {m})

\* the columns the four passes log
PassColumns ==
    {"time_some_missing", "time_negative", "time_zero", "times_but_no_amb",
     "call_time_high", "scene_time_high", "travel_time_high", "wait_time_high",
     "onset_negative", "onset_unknown", "anticoag_discrep", "inconsistent_death"}

\* C12: the saved cleaned table holds, in their original order, exactly the
\* rows of the raw rows whose stroke type is set (I or PIH), as they are
\* after all derivations and the four passes; its row count is the raw row
\* count minus the number of rows with unset stroke type.
C12_CleanerRowDrop ==
    cleanFile.exists =>
        LET kept == Ascending(TypedRows)
        IN  /\ Len(cleanFile.content) = Len(raw_data) - Cardinality((1..Len(raw_data)) \ TypedRows)
            /\ Len(cleanFile.content) = Len(kept)
            /\ \A j \in 1..Len(kept) :
                /\ cleanFile.content[j] =
                     DeathClean(AnticoagClean(OnsetClean(AmbulanceClean(
                        CleanRow(raw_data[kept[j]])))))
                /\ cleanFile.content[j]["id"] = raw_data[kept[j]]["PatientId"]
                /\ cleanFile.content[j]["infarction"] # NaN
            /\ \A i \in 1..Len(issues) : PassColumns \subseteq DOMAIN issues[i]

\* an extract of three patients is saved without one of them
C12_Witness ==
    /\ cl_pc = "done"
    /\ Len(raw_data) = 3
    /\ Len(cleanFile.content) = 2
    /\ raw_data[2]["S2StrokeType"] = NaN

\* positions of the rows of the saved issues log not marked missing_stroke_type
UnmarkedIssueRows ==
    {i \in 1..Len(issuesFile.content) : ~issuesFile.content[i].missing_stroke_type}

\* the issue row at position i describes the cleaned row r
Describes(i, r) ==
    /\ issuesFile.content[i].stroke_team = r["stroke_team"]
    /\ issuesFile.content[i].times_but_no_amb =>
            /\ r["arrive_by_ambulance"] = NaN
            /\ \A c \in amb_col : r[c] = NaN
    /\ issuesFile.content[i].onset_unknown => r["onset_to_arrival_time"] = NaN

\* C13 as stated: the saved issues log has one row per row of the saved
\* cleaned table, row i of one describing row i of the other.
C13_IssuesFilteredInLockstep ==
    issuesFile.exists =>
        /\ Len(issuesFile.content) = Len(cleanFile.content)
        /\ \A i \in 1..Len(cleanFile.content) : Describes(i, cleanFile.content[i])

\* C13 as amended: the issues log is saved unfiltered, one row per raw
\* row in the raw order, with missing_stroke_type true exactly for the rows
\* that are dropped from the cleaned table; row j of the saved cleaned table
\* is described by the j-th issue row not marked missing_stroke_type.
C13_IssuesAlignedByMark ==
    issuesFile.exists =>
        /\ \A i \in 1..Len(raw_data) :
            /\ i <= Len(issuesFile.content)
            /\ issuesFile.content[i].stroke_team = rstrip(raw_data[i]["TeamName"])
            /\ issuesFile.content[i].missing_stroke_type = (i \notin TypedRows)
        /\ \A i \in 1..Len(issuesFile.content) : i <= Len(raw_data)
        /\ Len(cleanFile.content) = Cardinality(UnmarkedIssueRows)
        /\ \A j \in 1..Len(cleanFile.content) :
            LET i == Ascending(UnmarkedIssueRows)[j]
            IN  /\ Describes(i, cleanFile.content[j])
                /\ cleanFile.content[j]["id"] = raw_data[i]["PatientId"]

\* the first of three patients has no stroke type, the second came without
\* ambulance but has ambulance times: the log keeps three rows
C13_Witness ==
    /\ cl_pc = "done"
    /\ Len(raw_data) = 3
    /\ issuesFile.content[1].missing_stroke_type
    /\ ~issuesFile.content[2].missing_stroke_type
    /\ issuesFile.content[2].times_but_no_amb
    /\ ~issuesFile.content[3].times_but_no_amb
    /\ Len(cleanFile.content) = 2

\* C14: the saved issues log has as many rows as cleaned_data before the
\* removal of patients, which is one per raw row, and the saved cleaned
\* table has at most as many rows as the raw table.
C14_RowCounts ==
    issuesFile.exists =>
        /\ Len(issuesFile.content) = Len(cleaned_data)
        /\ Len(cleaned_data) = Len(raw_data)
        /\ Len(cleanFile.content) <= Len(raw_data)

\* two of three patients are removed, the log has three rows
C14_Witness ==
    /\ cl_pc = "done"
    /\ Len(issuesFile.content) = 3
    /\ Len(cleanFile.content) = 1

\* the columns of the cleaned table that hold an indicator
MappedIndicatorColumns ==
    {"male", "infarction", "onset_known", "precise_onset_known",
     "onset_during_sleep", "arrive_by_ambulance", "thrombolysis",
     "thrombectomy", "new_afib_diagnosis", "any_afib_diagnosis",
     "nihss_complete", "death", "thrombolysis_no_not_available",
     "thrombolysis_no_out_of_hours", "thrombolysis_no_scan_not_quick_enough",
     "thrombolysis_no_no_reason"}
    \cup {kv[2] : kv \in comorbidities} \cup {kv[2] : kv \in anticoag_type}

IndicatorColumns == MappedIndicatorColumns \cup Range(no_thrombolysis_renamed)

\* the rows of the cleaned table, while it is built and as it is saved
CleanedRows ==
    Range(cleaned_data) \cup (IF cleanFile.exists THEN Range(cleanFile.content) ELSE {})

\* C15: every indicator column of the cleaned table, the 'no but' reason
\* columns included, holds 0, 1 or a missing value in every row, whatever
\* the raw values are.
C15_IndicatorsBinaryOrMissing ==
    \A r \in CleanedRows : \A c \in IndicatorColumns :
        r[c] \in {Num(0), Num(1), NaN}

DurationColumns ==
    amb_col \cup {"onset_to_arrival_time", "arrival_to_scan_time",
                  "scan_to_thrombolysis_time", "arrival_to_thrombectomy_time"}

\* C16: in every row of the saved cleaned table every duration column is
\* missing or not negative.
C16_DurationsNotNegative ==
    cleanFile.exists =>
        \A r \in Range(cleanFile.content) : \A c \in DurationColumns :
            r[c] = NaN \/ r[c][1] >= 0

AmbulanceIssueColumns ==
    {"time_some_missing", "time_negative", "time_zero", "times_but_no_amb",
     "call_time_high", "scene_time_high", "travel_time_high", "wait_time_high"}

\* the row r of the cleaned table has what the issue row l requires
AmbulanceCleared(l, r) ==
    /\ (\E c \in AmbulanceIssueColumns : l[c]) => \A c \in amb_col : r[c] = NaN
    /\ l.times_but_no_amb => r["arrive_by_ambulance"] = NaN

\* C17: from the ambulance pass on, every row of cleaned_data whose issue
\* row (same index) has an ambulance issue column set has its four
\* ambulance durations missing, and arrive_by_ambulance missing as well
\* when times_but_no_amb is set; the same holds of the rows of the saved
\* cleaned table.
C17_FlaggedAmbulanceCleared ==
    /\ issues # <<>> =>
        \A i \in 1..Len(issues) : AmbulanceCleared(issues[i], cleaned_data[i])
    /\ cleanFile.exists =>
        \A j \in 1..Len(cleanFile.content) :
            AmbulanceCleared(issuesFile.content[Ascending(UnmarkedIssueRows)[j]],
                             cleanFile.content[j])

\* a saved row whose only ambulance issue is the wait at hospital
C17_Witness ==
    /\ cl_pc = "done"
    /\ Len(cleanFile.content) = 1
    /\ issuesFile.content[1].wait_time_high
    /\ \A c \in AmbulanceIssueColumns \ {"wait_time_high"} : ~issuesFile.content[1][c]
    /\ \A c \in amb_col : cleanFile.content[1][c] = NaN
    /\ raw_data[1]["WheelsStoptoArrivalMinutes"] = Num(-721)

\* the death markers of raw row i, as the claims word them: the marker
\* indicates death, or is recorded with a value that does not
DeathMarkers == {"death", "discharge_disability", "discharge_destination"}

MarkerIndicatesDeath(raw, m) ==
    CASE m = "death" -> GeN(raw["ArrivalToDeathDays"], 0)
      [] m = "discharge_disability" -> EqN(raw["S7RankinDischarge"], 6)
      [] m = "discharge_destination" -> raw["S7DischargeType"] = Txt("D")

MarkerRecordedNotDeath(raw, m) ==
    CASE m = "death" -> ~GeN(raw["ArrivalToDeathDays"], 0)
      [] m = "discharge_disability" ->
            ~IsNull(raw["S7RankinDischarge"]) /\ ~EqN(raw["S7RankinDischarge"], 6)
      [] m = "discharge_destination" ->
            /\ raw["S7DischargeType"] # Txt("D")
            /\ \E kv \in discharge : kv[1] = raw["S7DischargeType"] /\ kv[1] # NaN

DeathMarkersDisagree(raw) ==
    \E m \in DeathMarkers : \E o \in DeathMarkers \ {m} :
        MarkerIndicatesDeath(raw, m) /\ MarkerRecordedNotDeath(raw, o)

DeathPassDone == cl_pc \in {"remove", "save", "done"}

\* C21: after the death pass a row is flagged inconsistent_death, and has
\* death, discharge_disability and discharge_destination missing, exactly
\* when one of the three markers indicates death and another one is
\* recorded with a value that does not; a row whose other markers are
\* only missing is not flagged and keeps its three values.
C21_DeathFlaggedIffDisagree ==
    DeathPassDone =>
        \A i \in 1..Len(raw_data) :
            /\ issues[i].inconsistent_death = DeathMarkersDisagree(raw_data[i])
            /\ (\A m \in DeathMarkers : cleaned_data[i][m] = NaN)
                    = DeathMarkersDisagree(raw_data[i])

\* Y/N/NB as 1/0/0, anything else missing
YesNoMarker(x) ==
    CASE x = Txt("Y") -> Num(1)
      [] x \in {Txt("N"), Txt("NB")} -> Num(0)
      [] OTHER -> NaN

\* the value of comorbidity column c for the raw row, the columns in
\* missingAsZero turning a missing raw value into 0
ComorbidityValue(raw, c, missingAsZero) ==
    LET x == raw[RawOf(comorbidities, c)]
    IN  IF x # NaN THEN YesNoMarker(x)
        ELSE IF c \in missingAsZero THEN Num(0)
        ELSE IF /\ c = "afib_antiplatelet"
                /\ YesNoMarker(raw["S2CoMAtrialFibrillation"]) = Num(0)
             THEN Num(0)
        ELSE NaN

\* the anticoagulant pass has set the anticoagulant columns of row i missing
AnticoagNulled(i) ==
    cl_pc \in {"death", "remove", "save", "done"} /\ issues[i].anticoag_discrep

\* the cleaned row made from raw row i has its comorbidity indicators as
\* ComorbidityValue says, and a missing anticoagulant sub-type as 0
ComorbiditiesMapped(r, i, missingAsZero) ==
    /\ \A c \in {kv[2] : kv \in comorbidities} \ {"afib_anticoagulant"} :
            r[c] = ComorbidityValue(raw_data[i], c, missingAsZero)
    /\ ~AnticoagNulled(i) =>
        /\ r["afib_anticoagulant"] =
                ComorbidityValue(raw_data[i], "afib_anticoagulant", missingAsZero)
        /\ \A c \in {kv[2] : kv \in anticoag_type} :
                raw_data[i][RawOf(anticoag_type, c)] = NaN => r[c] = Num(0)

AllComorbiditiesMapped(missingAsZero) ==
    /\ \A i \in 1..Len(cleaned_data) :
            ComorbiditiesMapped(cleaned_data[i], i, missingAsZero)
    /\ cleanFile.exists =>
        \A j \in 1..Len(cleanFile.content) :
            ComorbiditiesMapped(cleanFile.content[j], Ascending(TypedRows)[j],
                                missingAsZero)

\* C22 as stated: the seven comorbidity indicators are 1/0/0 for Y/N/NB and
\* missing for a missing raw value, except afib_antiplatelet which is 0
\* when it is missing and atrial_fibrillation is 0; of the anticoagulant
\* columns only the three sub-types turn a missing raw value into 0.
C22_MissingStaysMissing == AllComorbiditiesMapped({})

\* C22 as amended: afib_anticoagulant turns a missing raw value into 0 as
\* the three sub-types do; the anticoagulant columns of a row flagged
\* anticoag_discrep are set missing by the later pass.
C22_AnticoagulantMissingAsZero == AllComorbiditiesMapped({"afib_anticoagulant"})

\* a saved patient with atrial fibrillation and nothing recorded about
\* antiplatelets and anticoagulants
C22_Witness ==
    /\ cl_pc = "done"
    /\ Len(cleanFile.content) = 1
    /\ raw_data[1]["S2CoMAtrialFibrillation"] = Txt("Y")
    /\ raw_data[1]["S2CoMAFAntiplatelet"] = NaN
    /\ raw_data[1]["S2CoMAFAnticoagulent"] = NaN
    /\ cleanFile.content[1]["afib_antiplatelet"] = NaN
    /\ cleanFile.content[1]["afib_anticoagulant"] = Num(0)

\* the age bands marked 1 in a raw row
ActiveBands(raw) == {b \in Range(AgeBands) : raw[b] = Num(1)}

\* some issue column of the issue row is set
Flagged(l) == \E c \in DOMAIN l \ {"stroke_team"} : l[c]

\* C23: once the issues log is complete, a row with exactly one active age
\* band has the middle of that band as age; a row with no active band or
\* with several has no band midpoint as age and is flagged in some issue
\* column.
C23_AgeMidpointOrFlagged ==
    cl_pc \in {"save", "done"} =>
        \A i \in 1..Len(raw_data) :
            LET active == ActiveBands(raw_data[i])
            IN  IF Cardinality(active) = 1
                THEN \A b \in active : cleaned_data[i]["age"] = Num(ages[b])
                ELSE /\ cleaned_data[i]["age"] = NaN
                     /\ Flagged(issues[i])

\* the ambulance columns of raw row i before any pass
BeforeAmbulance(i) == AmbulanceColumns(raw_data[i])

Recorded(r, c) == r[c] # NaN

\* the ambulance conditions on a row, the condition on missing durations
\* being given
AmbulanceConditions(r, missing) ==
    [time_some_missing |-> missing,
     time_negative |-> \E c \in amb_col : Recorded(r, c) /\ r[c][1] < 0,
     time_zero |-> \E c \in amb_col \ {"ambulance_wait_time_at_hospital"} :
                        r[c] = Num(0),
     times_but_no_amb |-> /\ r["arrive_by_ambulance"] = Num(0)
                          /\ \E c \in amb_col : Recorded(r, c),
     call_time_high |-> /\ Recorded(r, "call_to_ambulance_arrival_time")
                        /\ r["call_to_ambulance_arrival_time"][1] > 1440,
     scene_time_high |-> /\ Recorded(r, "ambulance_on_scene_time")
                         /\ r["ambulance_on_scene_time"][1] > 720,
     travel_time_high |-> /\ Recorded(r, "ambulance_travel_to_hospital_time")
                          /\ r["ambulance_travel_to_hospital_time"][1] > 360,
     wait_time_high |-> /\ Recorded(r, "ambulance_wait_time_at_hospital")
                        /\ r["ambulance_wait_time_at_hospital"][1] > 720]

AnyMissing(r) == \E c \in amb_col : ~Recorded(r, c)
SomeButNotAllMissing(r) == AnyMissing(r) /\ \E c \in amb_col : Recorded(r, c)

\* the issue rows in memory and in the saved log
IssueLogs == {issues} \cup (IF issuesFile.exists THEN {issuesFile.content} ELSE {})

\* C25 as stated: every ambulance condition, a missing duration included,
\* has its own issue column, true in exactly the rows on which the
\* condition holds for the values before the cleaning.
C25_EveryConditionLogged ==
    \A log \in IssueLogs : \A i \in 1..Len(log) : \A c \in AmbulanceIssueColumns :
        log[i][c] = AmbulanceConditions(BeforeAmbulance(i),
                                        AnyMissing(BeforeAmbulance(i)))[c]

\* C25 as amended: the column time_some_missing is true in the rows with
\* some but not all of the four durations missing; a row with all four
\* missing is not flagged for it.  The other seven columns are as stated.
C25_SomeMissingLogged ==
    \A log \in IssueLogs : \A i \in 1..Len(log) : \A c \in AmbulanceIssueColumns :
        log[i][c] = AmbulanceConditions(BeforeAmbulance(i),
                                        SomeButNotAllMissing(BeforeAmbulance(i)))[c]

\* a saved log row with five conditions at once: no ambulance, a zero
\* travel time and the call, scene and wait times over their ceilings
C25_Witness ==
    /\ cl_pc = "done"
    /\ Len(issuesFile.content) = 1
    /\ \A c \in {"time_zero", "times_but_no_amb", "call_time_high",
                  "scene_time_high", "wait_time_high"} : issuesFile.content[1][c]
    /\ ~issuesFile.content[1].time_some_missing
    /\ \A c \in amb_col : cleaned_data[1][c] = NaN

\* a duration cell lies in the interval lo..hi
Within(x, lo, hi) == x # NaN /\ lo <= x[1] /\ x[1] <= hi

\* the ambulance group of a cleaned row is empty or plausible
AmbulanceGroupClean(r) ==
    \/ \A c \in amb_col : r[c] = NaN
    \/ /\ Within(r["call_to_ambulance_arrival_time"], 1, 1440)
       /\ Within(r["ambulance_on_scene_time"], 1, 720)
       /\ Within(r["ambulance_travel_to_hospital_time"], 1, 360)
       /\ Within(r["ambulance_wait_time_at_hospital"], 0, 720)
       /\ r["arrive_by_ambulance"] # Num(0)

\* C27: from the ambulance pass on, and in the saved cleaned table, the
\* four ambulance durations of a row are all missing or all present; when
\* present the call, scene and travel times are above 0 and at most 1440,
\* 720 and 360 minutes, the wait at hospital is from 0 to 720 minutes and
\* arrive_by_ambulance is not 0.
C27_AmbulanceGroupClean ==
    /\ cl_pc \notin {"idle", "create", "ambulance", "failed"} =>
            \A r \in Range(cleaned_data) : AmbulanceGroupClean(r)
    /\ cleanFile.exists =>
            \A r \in Range(cleanFile.content) : AmbulanceGroupClean(r)

\* a saved row that keeps its times: 1440 minutes from call to ambulance,
\* transport mode not recorded
C27_Witness ==
    /\ cl_pc = "done"
    /\ \E r \in Range(cleanFile.content) :
            /\ r["call_to_ambulance_arrival_time"] = Num(1440)
            /\ r["ambulance_wait_time_at_hospital"] = Num(5)
            /\ r["arrive_by_ambulance"] = NaN

\* the columns that the four passes write
AuditedColumns ==
    amb_col \cup {"arrive_by_ambulance", "onset_to_arrival_time",
                  "afib_anticoagulant"}
    \cup {kv[2] : kv \in anticoag_type} \cup DeathMarkers

\* the audited columns of row r that differ from the row as it was created
\* from raw row i
ChangedByPasses(i, r) ==
    {c \in AuditedColumns : r[c] # CleanRow(raw_data[i])[c]}

\* C28: from the first pass on, a row of cleaned_data in which a pass has
\* replaced a recorded value of an audited column by missing has an issue
\* column set in the issue row of the same index, in memory and in the
\* saved log; a row with no issue column set has its audited columns as
\* they were created, which also holds of the rows of the saved cleaned
\* table and their issue rows.
C28_ChangesAreLogged ==
    issues # <<>> =>
        /\ \A log \in IssueLogs : \A i \in 1..Len(cleaned_data) :
                LET changed == ChangedByPasses(i, cleaned_data[i])
                IN  /\ \A c \in changed :
                            /\ CleanRow(raw_data[i])[c] # NaN
                            /\ cleaned_data[i][c] = NaN
                    /\ changed # {} => Flagged(log[i])
        /\ cleanFile.exists =>
            \A j \in 1..Len(cleanFile.content) :
                LET i == Ascending(UnmarkedIssueRows)[j]
                IN  ~Flagged(issuesFile.content[i]) =>
                        ChangedByPasses(i, cleanFile.content[j]) = {}

\* a saved patient whose onset to arrival time of 0 minutes was set
\* missing and logged as onset_negative, and as nothing else
C28_Witness ==
    /\ cl_pc = "done"
    /\ Len(cleanFile.content) = 1
    /\ raw_data[1]["OnsettoArrivalMinutes"] = Num(0)
    /\ cleanFile.content[1]["onset_to_arrival_time"] = NaN
    /\ issuesFile.content[1].onset_negative
    /\ \A c \in DOMAIN issuesFile.content[1] \ {"stroke_team", "onset_negative"} :
            ~issuesFile.content[1][c]

====
